---- MODULE Spec2Model ----
(***************************************************************************)
(* Model of the gt-bot meeting registration engine (src/bot/storage.py,    *)
(* src/bot/models.py) as called from the Telegram handlers                 *)
(* (src/bot/handlers.py).                                                  *)
(*                                                                         *)
(* Every Database method opens its own AsyncSession.  A SELECT sees the    *)
(* committed rows; rows written by a session become visible at its         *)
(* commit.  Each `await` of a method is one step of the task running it,   *)
(* so that tasks may interleave between steps.  Spec runs the calls one    *)
(* at a time (the handlers as the Application dispatches them), SpecConc   *)
(* lets the calls of different tasks interleave at every await.            *)
(*                                                                         *)
(* SpecSched follows the reminder and digest scheduling                    *)
(* (src/bot/scheduler.py, src/main.py): the clock, the start instants of   *)
(* the meetings, the AsyncIOScheduler's pending list and job store, the    *)
(* handler tasks in flight and the messages delivered.  SpecDigest runs    *)
(* the digest job over meeting tables of up to MaxDigestMeetings rows.     *)
(* Spec and SpecConc follow the registration tables only: there the        *)
(* scheduler never moves and the start column is not followed.             *)
(*                                                                         *)
(* SpecConv follows the meeting-creation conversation of one user          *)
(* (handlers.py:108-351): the conversation state of each chat and the      *)
(* user's user_data, up to the call of Database.create_meeting.            *)
(* SpecReplan is the reminder planning alone, with starts edited later     *)
(* and earlier.  SpecApart runs register and unregister concurrently on    *)
(* two meetings, each from its own task.                                   *)
(*                                                                         *)
(* SpecUsers runs Database.get_or_create_user from concurrent tasks over   *)
(* the users table; SpecMy runs /my_meetings and the listing of a user's   *)
(* meetings over tables of NumListed meetings.  SpecRestart follows the    *)
(* process through its restarts (main.py:32-73), SpecLifecycle the calls   *)
(* of BotScheduler.start() and shutdown() in any order.  In the other      *)
(* specifications the users table is not followed.                         *)
(***************************************************************************)
EXTENDS Integers, Sequences, FiniteSets, TLC

(* ---- bounds of the model ---- *)
NumUsers == 3
NumProcs == 2
MaxMeetings == 1
MaxRegs == 3
MaxCap == 2
MaxNow == 2
MaxPending == 3
MaxOutbox == 2
MaxDigestMeetings == 12
StartSpan == 3
MaxLateCancel == 2
NumChats == 2
NumListed == 2

Users == 1..NumUsers
Procs == 1..NumProcs
MeetingIds == 1..MaxMeetings
Caps == 1..MaxCap

(* ---- models.py: RegistrationStatus ---- *)
CONFIRMED == "confirmed"
WAITLISTED == "waitlisted"
CANCELED == "canceled"

(* ---- the (bool, message) pairs the Database methods return ---- *)
MsgNotFound == "Meeting not found or canceled."
MsgAlready == "You are already registered."
MsgFull == "Meeting is full. You are added to the waitlist."
MsgRegistered == "Registered successfully."
MsgNotRegistered == "You are not registered."
MsgUnregistered == "You have been unregistered."
ExcMultipleResultsFound == "MultipleResultsFound"

VARIABLES
    meetings,   \* table meetings: row i is the meeting with id i
    regs,       \* table registrations: row i is the registration with id i
    writer,     \* the task whose session holds an open write transaction, or 0
    pc,         \* per task: the await its call is suspended at
    args,       \* per task: the call it runs and its arguments
    local,      \* per task: the local variables of the call
    result,     \* per task: what the call returned or raised
    pre,        \* per task: the tables as they were when the call was made
    concurrent_updates, \* whether the Application runs handlers concurrently
    now,            \* the clock, in days
    start_at_utc,   \* column meetings.start_at_utc: entry i is the start of meeting i
    settings,       \* Settings: announcements_channel_id, announce_days
    sched_state,    \* AsyncIOScheduler.state: "stopped" or "running"
    pending_jobs,   \* AsyncIOScheduler._pending_jobs: the jobs added before start()
    jobs,           \* the job store, in insertion order
    tasks,          \* the handler coroutines the executor has in flight
    outbox,         \* the messages application.bot.send_message delivered
    sched_op,       \* the last operation on the scheduler or on a meeting row
    conversations,  \* ConversationHandler._conversations: per chat, the state of
                    \* the user's creation conversation there
    user_data,      \* context.user_data of the user: per key, the value or None
    conv_op,        \* the update the creation conversation handled last
    users,          \* table users: the row of each user id that has one
    user_args,      \* per task: the name and username its call was given
    my_meetings     \* the last call of Database.list_user_meetings

schedvars == <<now, start_at_utc, settings, sched_state, pending_jobs, jobs, tasks,
               outbox, sched_op>>

convvars == <<conversations, user_data, conv_op>>

uservars == <<users, user_args, my_meetings>>

vars == <<meetings, regs, writer, pc, args, local, result, pre, concurrent_updates, uservars,
          schedvars, convvars>>

NoArgs == [op |-> "none", m |-> 0, u |-> 0, cap |-> 0]
NoLocal == [cap |-> 0, status |-> "", id |-> 0]
NoResult == [kind |-> "none", ok |-> FALSE, msg |-> "", m |-> 0]
NoPre == [meetings |-> <<>>, regs |-> <<>>]

Return(ok, msg) == [kind |-> "return", ok |-> ok, msg |-> msg, m |-> 0]
Raise(exc) == [kind |-> "raise", ok |-> FALSE, msg |-> exc, m |-> 0]

(* ---- the tables, as a reader of the database sees them ---- *)

\* Database.count_confirmed, storage.py:94-103, on the table R
ConfirmedCountIn(R, m) ==
    Cardinality({i \in DOMAIN R : R[i].meeting_id = m /\ R[i].status = CONFIRMED})

confirmedCount(m) == ConfirmedCountIn(regs, m)

\* the live (confirmed or waitlisted) rows of (meeting, user) in the table R
LiveRowsIn(R, m, u) ==
    {i \in DOMAIN R : /\ R[i].meeting_id = m
                      /\ R[i].user_id = u
                      /\ R[i].status \in {CONFIRMED, WAITLISTED}}

\* the meeting exists in the table M and its cancellation instant is null
IsActiveIn(M, m) == m \in DOMAIN M /\ ~M[m].canceled

\* the rows of meeting m in the table R, in id order, as <<user, status>>
RowsOf(R, m) ==
    LET OfMeeting(r) == r.meeting_id = m
        S == SelectSeq(R, OfMeeting)
    IN  [i \in 1..Len(S) |-> <<S[i].user_id, S[i].status>>]

(* ---- the queries and decisions of storage.py ---- *)

\* mutant: the cancellation instant is not looked at
MeetingUsable_IgnoresCanceled(m) == m \in DOMAIN meetings

\* storage.py:127: `m is None or m.canceled_at is not None` is false
MeetingUsable(m) == m \in DOMAIN meetings /\ ~meetings[m].canceled

\* mutant: a canceled registration counts as "already registered" too
ExistingRows_AnyStatus(m, u) ==
    {i \in DOMAIN regs : regs[i].meeting_id = m /\ regs[i].user_id = u}

\* storage.py:130-133: the rows register() takes as "already registered"
ExistingRows(m, u) ==
    {i \in DOMAIN regs : /\ regs[i].meeting_id = m
                         /\ regs[i].user_id = u
                         /\ regs[i].status = CONFIRMED}

\* mutant: the confirmed rows of every meeting are counted
CountConfirmedQuery_AllMeetings(m) ==
    Cardinality({i \in DOMAIN regs : regs[i].status = CONFIRMED})

\* storage.py:138-143: the count register() reads
CountConfirmedQuery(m) ==
    Cardinality({i \in DOMAIN regs : /\ regs[i].meeting_id = m
                                     /\ regs[i].status = CONFIRMED})

\* mutant: the registration of the meeting's creator is not selected
UnregisterRows_NotCreator(m, u) ==
    {i \in DOMAIN regs : /\ regs[i].meeting_id = m
                         /\ regs[i].user_id = u
                         /\ regs[i].status \in {CONFIRMED, WAITLISTED}
                         /\ m \in DOMAIN meetings
                         /\ u # meetings[m].created_by}

\* storage.py:159-164: the rows unregister() selects
UnregisterRows(m, u) ==
    {i \in DOMAIN regs : /\ regs[i].meeting_id = m
                         /\ regs[i].user_id = u
                         /\ regs[i].status \in {CONFIRMED, WAITLISTED}}

\* mutant: the comparison admits one registration too many
StatusFor_OffByOne(count, max_participants) ==
    IF count <= max_participants THEN CONFIRMED ELSE WAITLISTED

\* storage.py:144
StatusFor(count, max_participants) ==
    IF count < max_participants THEN CONFIRMED ELSE WAITLISTED

\* mutant: the waitlisted branch is lost
RegisterResult_AlwaysRegistered(status) == Return(TRUE, MsgRegistered)

\* storage.py:148-150
RegisterResult(status) ==
    IF status = WAITLISTED THEN Return(TRUE, MsgFull)
    ELSE Return(TRUE, MsgRegistered)

\* mutant: the creator's registration is not confirmed
HostRegistration_Waitlisted(m, host_id) ==
    [meeting_id |-> m, user_id |-> host_id, status |-> WAITLISTED, is_host |-> FALSE]

\* storage.py:64 (is_host keeps its column default, models.py:64)
HostRegistration(m, host_id) ==
    [meeting_id |-> m, user_id |-> host_id, status |-> CONFIRMED, is_host |-> FALSE]

\* storage.py:145
NewRegistration(m, u, status) ==
    [meeting_id |-> m, user_id |-> u, status |-> status, is_host |-> FALSE]

(* ---- configuration, config.py ---- *)

\* config.py:40: announcements_channel_id is None (falsy, as 0 is)
NoChannel == 0

\* the chat id of the announcements channel when one is configured
ChannelId == 1

\* config.py:26, 44: announce_days
DefaultAnnounceDays == {1, 15}

\* config.py:36-47: the defaults
DefaultSettings ==
    [announcements_channel_id |-> NoChannel, announce_days |-> DefaultAnnounceDays]

\* config.py:94-102: ANNOUNCEMENTS_CHANNEL_ID and ANNOUNCE_DAYS from the environment
SettingsChoices ==
    { DefaultSettings,
      [announcements_channel_id |-> ChannelId, announce_days |-> {1, 2, 15}] }

(* ---- the scheduler, scheduler.py ---- *)

STOPPED == "stopped"
RUNNING == "running"

\* scheduler.py:46: for days_before in (3, 1)
DaysBefore == <<3, 1>>

\* scheduler.py:86: meetings[:10]
DigestLimit == 10

\* scheduler.py:83, 85
TextNoUpcoming == "No upcoming meetings."
TextUpcoming == "Upcoming meetings:"

\* the start instants a meeting is given, in days from now
\* (the date picker of handlers.py:300-310)
StartDelays == {1, 2, 4}

\* the start instants a meeting is moved to, in days from now
EditDelays == {10}

\* the start instants a meeting is moved back to, in days from now
EarlierEditDelays == {2}

\* mutant: the id does not tell the offsets apart
ReminderJobId_NoOffset(meeting_id, days_before) == <<"meeting", meeting_id, "reminder", 0>>

\* scheduler.py:54: f"meeting_{meeting.id}_reminder_{days_before}"
ReminderJobId(meeting_id, days_before) == <<"meeting", meeting_id, "reminder", days_before>>

\* scheduler.py:73
AnnouncementsJobId == <<"announcements_job">>

\* scheduler.py:52: DateTrigger(run_date=run_at)
DateTrigger(run_date) == [kind |-> "date", run_date |-> run_date, days |-> {}]

\* scheduler.py:71: CronTrigger(day=..., hour=t.hour, minute=t.minute)
CronTrigger(days) == [kind |-> "cron", run_date |-> 0, days |-> days]

NoSchedOp == [op |-> "none", m |-> 0, start |-> 0, now |-> 0, nth |-> 0]

\* main.py:45: BotScheduler(...) constructs an AsyncIOScheduler, not started
SchedulerConstructed ==
    /\ now = 0
    /\ start_at_utc = <<>>
    /\ sched_state = STOPPED
    /\ pending_jobs = <<>>
    /\ jobs = <<>>
    /\ tasks = {}
    /\ outbox = <<>>
    /\ sched_op = NoSchedOp

Min(S) == CHOOSE x \in S : \A y \in S : x <= y

\* trigger.get_next_fire_time(previous_fire_time, now): a date trigger fires
\* once, at run_date; a cron trigger at its next day of the month, which is
\* not before now and is after the previous fire time.  NoRunTime: none
NoRunTime == -1

NextFireTime(trigger, previous, t) ==
    IF trigger.kind = "date"
    THEN IF previous = NoRunTime THEN trigger.run_date ELSE NoRunTime
    ELSE LET D == {d \in trigger.days : d >= t /\ d > previous}
         IN  IF D = {} THEN NoRunTime ELSE Min(D)

\* the job add_job() builds, scheduler.py:50-56 and 69-75
Job(id, trigger, func, arg) ==
    [id |-> id, trigger |-> trigger, func |-> func, arg |-> arg]

\* the position of the job with this id in the job store, or 0
IndexOf(store, id) ==
    IF \E i \in DOMAIN store : store[i].id = id
    THEN CHOOSE i \in DOMAIN store : store[i].id = id
    ELSE 0

\* mutant: a job whose id is in the store is added beside it
RealAddJob_NoReplace(store, job, t) ==
    Append(store, [job |-> job, next_run_time |-> NextFireTime(job.trigger, NoRunTime, t)])

\* add_job(..., replace_existing=True) on a running scheduler,
\* scheduler.py:50-56, 69-75: the job takes the place of the stored job
\* with its id, or is added
RealAddJob(store, job, t) ==
    LET entry == [job |-> job, next_run_time |-> NextFireTime(job.trigger, NoRunTime, t)]
        i == IndexOf([k \in DOMAIN store |-> store[k].job], job.id)
    IN  IF i = 0 THEN Append(store, entry) ELSE [store EXCEPT ![i] = entry]

RECURSIVE RealAddAll(_, _, _)
\* scheduler.start(), scheduler.py:35: the pending jobs are added in order
RealAddAll(store, pending, t) ==
    IF pending = <<>> THEN store
    ELSE RealAddAll(RealAddJob(store, Head(pending), t), Tail(pending), t)

\* scheduler.add_job(...): kept in the pending list until the scheduler is
\* started, put in the job store when it is running.  The result is the
\* pair of lists
AddJob(state, pending, store, job, t) ==
    IF state = STOPPED
    THEN [pending |-> Append(pending, job), jobs |-> store]
    ELSE [pending |-> pending, jobs |-> RealAddJob(store, job, t)]

\* mutant: a reminder due at this very instant is submitted too
ReminderDue_Inclusive(run_at, t) == run_at >= t

\* scheduler.py:49: if run_at > now
ReminderDue(run_at, t) == run_at > t

\* scheduler.py:46-56: one round of the loop of schedule_meeting_reminders
PlanOne(lists, state, meeting_id, start_utc, days_before, t) ==
    LET run_at == start_utc - days_before IN
    IF ReminderDue(run_at, t)
    THEN AddJob(state, lists.pending, lists.jobs,
                Job(ReminderJobId(meeting_id, days_before), DateTrigger(run_at),
                    "_reminder_job", meeting_id), t)
    ELSE lists

RECURSIVE PlanAll(_, _, _, _, _, _)
\* scheduler.py:42-56: the loop over days_before
PlanAll(lists, state, meeting_id, start_utc, days, t) ==
    IF days = <<>> THEN lists
    ELSE PlanAll(PlanOne(lists, state, meeting_id, start_utc, Head(days), t),
                 state, meeting_id, start_utc, Tail(days), t)

\* scheduler.get_jobs(): the pending jobs of a scheduler that is not
\* started, the stored jobs of a running one
GetJobs(state, pending, store) ==
    IF state = STOPPED THEN pending ELSE [k \in DOMAIN store |-> store[k].job]

\* the operation, the second of two calls alike in a row or not
SchedOp(op, m, start) ==
    [op |-> op, m |-> m, start |-> start, now |-> now,
     nth |-> IF /\ sched_op.op = op /\ sched_op.m = m
                /\ sched_op.start = start /\ sched_op.now = now
             THEN 2 ELSE 1]

\* BotScheduler.schedule_meeting_reminders(meeting), scheduler.py:42-56,
\* for the meeting as its row stands
schedule_meeting_reminders(m) ==
    /\ m \in DOMAIN meetings
    /\ LET lists == PlanAll([pending |-> pending_jobs, jobs |-> jobs], sched_state,
                            m, start_at_utc[m], DaysBefore, now)
       IN  /\ Len(lists.pending) <= MaxPending
           /\ pending_jobs' = lists.pending
           /\ jobs' = lists.jobs
    /\ sched_op' = SchedOp("schedule_meeting_reminders", m, start_at_utc[m])
    /\ UNCHANGED <<meetings, regs, writer, pc, args, local, result, pre, concurrent_updates, uservars, convvars,
                   now, start_at_utc, settings, sched_state, tasks, outbox>>

(* ---- the creation conversation, handlers.py:108-351 ---- *)

Chats == 1..NumChats

\* handlers.py:70-76
STATE_TOPIC == 1
STATE_DESCRIPTION == 2
STATE_MAX == 3
STATE_LOCATION == 4
STATE_DATE == 5
STATE_HOUR == 6
STATE_MINUTE == 7

\* ConversationHandler.END: the chat holds no conversation of the user
END == -1

\* a value that may be None: <<>> is None, <<v>> is the value v
None == <<>>
Some(v) == <<v>>

\* the keys the handlers keep in context.user_data
Keys == {"topic", "description", "max_participants", "location", "selected_date",
         "selected_hour"}

\* context.user_data.clear(), handlers.py:147, 345, 349
Cleared == [k \in Keys |-> None]

\* the texts a user sends, as sequences of characters
TextInputs == { <<" ">>, <<"a">>, <<"a", " ">> }
CapacityInputs == { <<"2">>, <<" ", "1">>, <<"0">>, <<"-", "1">>, <<"a">>, <<"1", ".", "5">> }
LocationInputs == { <<"-">>, <<"b">> }

\* the hour a press of the time picker stands for
Hours == {12}

RECURSIVE LStrip(_)
LStrip(s) == IF s # <<>> /\ Head(s) = " " THEN LStrip(Tail(s)) ELSE s

RECURSIVE RStrip(_)
RStrip(s) ==
    IF s # <<>> /\ s[Len(s)] = " " THEN RStrip(SubSeq(s, 1, Len(s) - 1)) ELSE s

\* str.strip(), handlers.py:154, 165, 176, 193
Strip(s) == RStrip(LStrip(s))

Digits == <<"0", "1", "2", "3", "4", "5", "6", "7", "8", "9">>

DigitValue(c) == (CHOOSE i \in DOMAIN Digits : Digits[i] = c) - 1

IsDigit(c) == \E i \in DOMAIN Digits : Digits[i] = c

\* the digits of a numeral, without its sign
Numeral(s) == IF s # <<>> /\ Head(s) \in {"-", "+"} THEN Tail(s) ELSE s

\* int(text) does not raise ValueError, handlers.py:178
IsIntText(s) ==
    /\ Numeral(s) # <<>>
    /\ \A i \in DOMAIN Numeral(s) : IsDigit(Numeral(s)[i])

RECURSIVE NumeralValue(_)
NumeralValue(s) ==
    IF s = <<>> THEN 0
    ELSE 10 * NumeralValue(SubSeq(s, 1, Len(s) - 1)) + DigitValue(s[Len(s)])

\* int(text), handlers.py:178
IntOf(s) ==
    IF s # <<>> /\ Head(s) = "-" THEN 0 - NumeralValue(Numeral(s))
    ELSE NumeralValue(Numeral(s))

\* mutant: a capacity of 0 is taken
ValidCapacity_AdmitsZero(text) == IsIntText(text) /\ IntOf(text) >= 0

\* handlers.py:177-181: int(text) succeeds and max_p <= 0 is false
ValidCapacity(text) == IsIntText(text) /\ IntOf(text) > 0

\* handlers.py:194: the inputs that stand for no location
skip_values == { <<>>, <<"-">> }

NoConvOp == [handler |-> "none", chat |-> 0, text |-> <<>>, request |-> None]

ConvOp(handler, chat, text, request) ==
    [handler |-> handler, chat |-> chat, text |-> text, request |-> request]

\* handlers.py:86-94: the Application is built; no conversation is open and
\* the user's user_data is empty
NoConversation ==
    /\ conversations = [c \in Chats |-> END]
    /\ user_data = Cleared
    /\ conv_op = NoConvOp

\* BotApp._create_meeting_start, handlers.py:142-151: the entry point
\* /create_meeting, taken in every state of the chat's conversation
\* (allow_reentry, handlers.py:137)
create_meeting_start(chat) ==
    /\ user_data' = Cleared
    /\ conversations' = [conversations EXCEPT ![chat] = STATE_TOPIC]
    /\ conv_op' = ConvOp("_create_meeting_start", chat, <<>>, None)
    /\ UNCHANGED <<meetings, regs, writer, pc, args, local, result, pre, concurrent_updates, uservars,
                   schedvars>>

\* BotApp._create_meeting_topic, handlers.py:153-162
create_meeting_topic(chat, text) ==
    /\ conversations[chat] = STATE_TOPIC
    /\ LET topic == Strip(text) IN
       IF topic = <<>>
       THEN UNCHANGED <<conversations, user_data>>
       ELSE /\ user_data' = [user_data EXCEPT !["topic"] = Some(topic)]
            /\ conversations' = [conversations EXCEPT ![chat] = STATE_DESCRIPTION]
    /\ conv_op' = ConvOp("_create_meeting_topic", chat, text, None)
    /\ UNCHANGED <<meetings, regs, writer, pc, args, local, result, pre, concurrent_updates, uservars,
                   schedvars>>

\* BotApp._create_meeting_description, handlers.py:164-173
create_meeting_description(chat, text) ==
    /\ conversations[chat] = STATE_DESCRIPTION
    /\ LET desc == Strip(text) IN
       IF desc = <<>>
       THEN UNCHANGED <<conversations, user_data>>
       ELSE /\ user_data' = [user_data EXCEPT !["description"] = Some(desc)]
            /\ conversations' = [conversations EXCEPT ![chat] = STATE_MAX]
    /\ conv_op' = ConvOp("_create_meeting_description", chat, text, None)
    /\ UNCHANGED <<meetings, regs, writer, pc, args, local, result, pre, concurrent_updates, uservars,
                   schedvars>>

\* BotApp._create_meeting_max_members, handlers.py:175-190
create_meeting_max_members(chat, text) ==
    /\ conversations[chat] = STATE_MAX
    /\ IF ValidCapacity(Strip(text))
       THEN /\ user_data' = [user_data EXCEPT !["max_participants"] = Some(IntOf(Strip(text)))]
            /\ conversations' = [conversations EXCEPT ![chat] = STATE_LOCATION]
       ELSE UNCHANGED <<conversations, user_data>>
    /\ conv_op' = ConvOp("_create_meeting_max_members", chat, text, None)
    /\ UNCHANGED <<meetings, regs, writer, pc, args, local, result, pre, concurrent_updates, uservars,
                   schedvars>>

\* BotApp._create_meeting_location, handlers.py:192-205
create_meeting_location(chat, text) ==
    /\ conversations[chat] = STATE_LOCATION
    /\ LET raw == Strip(text) IN
       user_data' = [user_data EXCEPT !["location"] =
                        IF raw \in skip_values THEN None ELSE Some(raw)]
    /\ conversations' = [conversations EXCEPT ![chat] = STATE_DATE]
    /\ conv_op' = ConvOp("_create_meeting_location", chat, text, None)
    /\ UNCHANGED <<meetings, regs, writer, pc, args, local, result, pre, concurrent_updates, uservars,
                   schedvars>>

\* BotApp._create_meeting_calendar_callback, handlers.py:207-233: a press
\* that moves about the calendar or picks the date result
create_meeting_calendar_callback(chat, picks, result_date) ==
    /\ conversations[chat] = STATE_DATE
    /\ IF ~picks
       THEN UNCHANGED <<conversations, user_data>>
       ELSE /\ user_data' = [user_data EXCEPT !["selected_date"] = Some(result_date)]
            /\ conversations' = [conversations EXCEPT ![chat] = STATE_HOUR]
    /\ conv_op' = ConvOp("_create_meeting_calendar_callback", chat, <<>>, None)
    /\ UNCHANGED <<meetings, regs, writer, pc, args, local, result, pre, concurrent_updates, uservars,
                   schedvars>>

\* BotApp._create_meeting_hour_callback, handlers.py:235-267: "hour:back"
\* shows the hours again; an hour is stored, and the minutes are shown
\* unless formatting the date raises (selected_date is None), which leaves
\* the conversation where it was
create_meeting_hour_callback(chat, back, hour) ==
    /\ conversations[chat] = STATE_HOUR
    /\ IF back
       THEN UNCHANGED <<conversations, user_data>>
       ELSE /\ user_data' = [user_data EXCEPT !["selected_hour"] = Some(hour)]
            /\ conversations' =
                  IF user_data["selected_date"] = None THEN conversations
                  ELSE [conversations EXCEPT ![chat] = STATE_MINUTE]
    /\ conv_op' = ConvOp("_create_meeting_hour_callback", chat, <<>>, None)
    /\ UNCHANGED <<meetings, regs, writer, pc, args, local, result, pre, concurrent_updates, uservars,
                   schedvars>>

\* the keyword arguments of db.create_meeting, handlers.py:320-332
CreateRequest(start_utc) ==
    [topic |-> user_data["topic"],
     description |-> user_data["description"],
     max_participants |-> user_data["max_participants"],
     location |-> user_data["location"],
     start_at_utc |-> Some(start_utc)]

\* models.py:34-37: topic, description, start_at_utc and max_participants
\* are NOT NULL columns; the flush of a row with None in one of them
\* raises IntegrityError (storage.py:62)
InsertFails(request) ==
    \/ request.topic = None
    \/ request.description = None
    \/ request.start_at_utc = None
    \/ request.max_participants = None

\* BotApp._create_meeting_minute_callback, handlers.py:269-346, with
\* Database.create_meeting and schedule_meeting_reminders as it calls them
create_meeting_minute_callback(chat, back, host_id) ==
    /\ conversations[chat] = STATE_MINUTE
    /\ IF back
       THEN \* lines 279-285: formatting selected_date raises when it is None
            /\ conversations' =
                  IF user_data["selected_date"] = None THEN conversations
                  ELSE [conversations EXCEPT ![chat] = STATE_HOUR]
            /\ conv_op' = ConvOp("_create_meeting_minute_callback", chat, <<>>, None)
            /\ UNCHANGED <<user_data, meetings, regs, start_at_utc, pending_jobs, jobs,
                           sched_op>>
       ELSE IF user_data["selected_date"] = None
       THEN \* lines 297-300
            /\ conversations' = [conversations EXCEPT ![chat] = END]
            /\ conv_op' = ConvOp("_create_meeting_minute_callback", chat, <<>>, None)
            /\ UNCHANGED <<user_data, meetings, regs, start_at_utc, pending_jobs, jobs,
                           sched_op>>
       ELSE LET start_utc == user_data["selected_date"][1]
                request == CreateRequest(start_utc)
            IN  /\ conv_op' = ConvOp("_create_meeting_minute_callback", chat, <<>>,
                                     Some(request))
                /\ IF InsertFails(request)
                   THEN \* the exception leaves the handler
                        UNCHANGED <<conversations, user_data, meetings, regs, start_at_utc,
                                    pending_jobs, jobs, sched_op>>
                   ELSE LET m == Len(meetings) + 1
                            cap == request.max_participants[1]
                            lists == PlanAll([pending |-> pending_jobs, jobs |-> jobs],
                                             sched_state, m, start_utc, DaysBefore, now)
                        IN  /\ Len(meetings) < MaxMeetings
                            /\ Len(regs) < MaxRegs
                            /\ Len(lists.pending) <= MaxPending
                            /\ meetings' = Append(meetings,
                                                  [created_by |-> host_id,
                                                   max_participants |-> cap,
                                                   canceled |-> FALSE])
                            /\ start_at_utc' = Append(start_at_utc, start_utc)
                            /\ regs' = Append(regs, HostRegistration(m, host_id))
                            /\ pending_jobs' = lists.pending
                            /\ jobs' = lists.jobs
                            /\ sched_op' = SchedOp("create_meeting", m, start_utc)
                            /\ user_data' = Cleared
                            /\ conversations' = [conversations EXCEPT ![chat] = END]
    /\ UNCHANGED <<writer, pc, args, local, result, pre, concurrent_updates, uservars,
                   now, settings, sched_state, tasks, outbox>>

\* BotApp._create_meeting_cancel, handlers.py:348-351: the fallback /cancel
\* of a chat that holds a conversation
create_meeting_cancel(chat) ==
    /\ conversations[chat] # END
    /\ user_data' = Cleared
    /\ conversations' = [conversations EXCEPT ![chat] = END]
    /\ conv_op' = ConvOp("_create_meeting_cancel", chat, <<>>, None)
    /\ UNCHANGED <<meetings, regs, writer, pc, args, local, result, pre, concurrent_updates, uservars,
                   schedvars>>

(* ---- the users, models.py:16-26 ---- *)

\* handlers.py:411: user.full_name and user.username as Telegram reports
\* them with an update; the user may change them between two updates
Profiles == { [name |-> "Ann", username |-> None],
              [name |-> "Anna", username |-> Some("ann")] }

NoProfile == [name |-> "", username |-> None]

NoListing == [op |-> "none", user_id |-> 0, now_utc |-> 0, rows |-> <<>>]

\* main.py:34-35: create_all() on an empty database; no call is in flight
NoUsers ==
    /\ users = <<>>
    /\ user_args = [p \in Procs |-> NoProfile]
    /\ my_meetings = NoListing

\* main.py:25-57 and handlers.py:97-99: the scheduler is started, the tables
\* are empty, no conversation is open
InitConv ==
    /\ concurrent_updates = FALSE
    /\ meetings = <<>>
    /\ regs = <<>>
    /\ writer = 0
    /\ pc = [p \in Procs |-> "idle"]
    /\ args = [p \in Procs |-> NoArgs]
    /\ local = [p \in Procs |-> NoLocal]
    /\ result = [p \in Procs |-> NoResult]
    /\ pre = [p \in Procs |-> NoPre]
    /\ NoConversation
    /\ NoUsers
    /\ settings = DefaultSettings
    /\ now = 0
    /\ start_at_utc = <<>>
    /\ sched_state = RUNNING
    /\ pending_jobs = <<>>
    /\ jobs = <<>>
    /\ tasks = {}
    /\ outbox = <<>>
    /\ sched_op = NoSchedOp

\* the updates of one user, who writes to the bot in the chats Chats
NextConv ==
    \/ \E c \in Chats : create_meeting_start(c)
    \/ \E c \in Chats, t \in TextInputs : create_meeting_topic(c, t)
    \/ \E c \in Chats, t \in TextInputs : create_meeting_description(c, t)
    \/ \E c \in Chats, t \in CapacityInputs : create_meeting_max_members(c, t)
    \/ \E c \in Chats, t \in LocationInputs : create_meeting_location(c, t)
    \/ \E c \in Chats, b \in BOOLEAN, d \in StartDelays :
          create_meeting_calendar_callback(c, b, now + d)
    \/ \E c \in Chats, b \in BOOLEAN, h \in Hours : create_meeting_hour_callback(c, b, h)
    \/ \E c \in Chats, b \in BOOLEAN : create_meeting_minute_callback(c, b, Min(Users))
    \/ \E c \in Chats : create_meeting_cancel(c)

\* the creation conversation of one user
SpecConv == InitConv /\ [][NextConv]_vars

\* handlers.py:86: ApplicationBuilder().token(...).build() leaves
\* concurrent_updates off: an update is handled when the one before it is done
Init ==
    /\ concurrent_updates = FALSE
    /\ meetings = <<>>
    /\ regs = <<>>
    /\ writer = 0
    /\ pc = [p \in Procs |-> "idle"]
    /\ args = [p \in Procs |-> NoArgs]
    /\ local = [p \in Procs |-> NoLocal]
    /\ result = [p \in Procs |-> NoResult]
    /\ pre = [p \in Procs |-> NoPre]
    /\ NoConversation
    /\ NoUsers
    /\ settings = DefaultSettings
    /\ SchedulerConstructed

\* the same program with its Database methods called from concurrent tasks
InitConc ==
    /\ concurrent_updates = TRUE
    /\ meetings = <<>>
    /\ regs = <<>>
    /\ writer = 0
    /\ pc = [p \in Procs |-> "idle"]
    /\ args = [p \in Procs |-> NoArgs]
    /\ local = [p \in Procs |-> NoLocal]
    /\ result = [p \in Procs |-> NoResult]
    /\ pre = [p \in Procs |-> NoPre]
    /\ NoConversation
    /\ NoUsers
    /\ settings = DefaultSettings
    /\ SchedulerConstructed

Snapshot == [meetings |-> meetings, regs |-> regs]

\* task p may start handling an update: without concurrent_updates the
\* Application handles the updates in one task, each when the one before
\* it is done
MayStart(p) ==
    /\ pc[p] = "idle"
    /\ concurrent_updates \/ p = 1

(* ---- Database.register, storage.py:119-150 ---- *)

\* lines 125-128: open the session, s.get(Meeting, meeting_id)
register_get(p, m, u) ==
    /\ MayStart(p)
    /\ args' = [args EXCEPT ![p] = [op |-> "register", m |-> m, u |-> u, cap |-> 0]]
    /\ pre' = [pre EXCEPT ![p] = Snapshot]
    /\ IF MeetingUsable(m)
       THEN /\ pc' = [pc EXCEPT ![p] = "reg_existing"]
            /\ local' = [local EXCEPT ![p] = [NoLocal EXCEPT !.cap = meetings[m].max_participants]]
            /\ UNCHANGED result
       ELSE /\ pc' = [pc EXCEPT ![p] = "done"]
            /\ result' = [result EXCEPT ![p] = Return(FALSE, MsgNotFound)]
            /\ UNCHANGED local
    /\ UNCHANGED <<meetings, regs, writer, concurrent_updates, uservars, convvars, schedvars>>

\* lines 129-136: select the existing registration, scalar_one_or_none()
register_existing(p) ==
    /\ pc[p] = "reg_existing"
    /\ LET rows == ExistingRows(args[p].m, args[p].u) IN
       IF Cardinality(rows) > 1
       THEN /\ pc' = [pc EXCEPT ![p] = "done"]
            /\ result' = [result EXCEPT ![p] = Raise(ExcMultipleResultsFound)]
       ELSE IF rows # {}
       THEN /\ pc' = [pc EXCEPT ![p] = "done"]
            /\ result' = [result EXCEPT ![p] = Return(FALSE, MsgAlready)]
       ELSE /\ pc' = [pc EXCEPT ![p] = "reg_count"]
            /\ UNCHANGED result
    /\ UNCHANGED <<meetings, regs, writer, args, local, pre, concurrent_updates, uservars, convvars, schedvars>>

\* lines 137-146: count the confirmed rows, choose the status, s.add(reg)
register_count(p) ==
    /\ pc[p] = "reg_count"
    /\ local' = [local EXCEPT ![p].status =
                    StatusFor(CountConfirmedQuery(args[p].m), local[p].cap)]
    /\ pc' = [pc EXCEPT ![p] = "reg_commit"]
    /\ UNCHANGED <<meetings, regs, writer, args, result, pre, concurrent_updates, uservars, convvars, schedvars>>

\* mutant: a canceled row of the pair is made live again instead of a new
\* row being inserted
register_commit_Revives(p) ==
    /\ pc[p] = "reg_commit"
    /\ writer = 0
    /\ Len(RowsOf(regs, args[p].m)) < MaxRegs
    /\ LET old == {i \in DOMAIN regs : /\ regs[i].meeting_id = args[p].m
                                       /\ regs[i].user_id = args[p].u
                                       /\ regs[i].status = CANCELED}
       IN  regs' = IF old = {}
                   THEN Append(regs, NewRegistration(args[p].m, args[p].u, local[p].status))
                   ELSE [regs EXCEPT ![CHOOSE i \in old : TRUE].status = local[p].status]
    /\ result' = [result EXCEPT ![p] = RegisterResult(local[p].status)]
    /\ pc' = [pc EXCEPT ![p] = "done"]
    /\ UNCHANGED <<meetings, writer, args, local, pre, concurrent_updates, uservars, convvars, schedvars>>

\* lines 147-150: commit (INSERT, COMMIT) and return
register_commit(p) ==
    /\ pc[p] = "reg_commit"
    /\ writer = 0
    /\ Len(RowsOf(regs, args[p].m)) < MaxRegs
    /\ regs' = Append(regs, NewRegistration(args[p].m, args[p].u, local[p].status))
    /\ result' = [result EXCEPT ![p] = RegisterResult(local[p].status)]
    /\ pc' = [pc EXCEPT ![p] = "done"]
    /\ UNCHANGED <<meetings, writer, args, local, pre, concurrent_updates, uservars, convvars, schedvars>>

(* ---- Database.unregister, storage.py:152-170 ---- *)

\* lines 158-168: select the live registration, scalar_one_or_none(),
\* set reg.status on the loaded row
unregister_select(p, m, u) ==
    /\ MayStart(p)
    /\ args' = [args EXCEPT ![p] = [op |-> "unregister", m |-> m, u |-> u, cap |-> 0]]
    /\ pre' = [pre EXCEPT ![p] = Snapshot]
    /\ LET rows == UnregisterRows(m, u) IN
       IF Cardinality(rows) > 1
       THEN /\ pc' = [pc EXCEPT ![p] = "done"]
            /\ result' = [result EXCEPT ![p] = Raise(ExcMultipleResultsFound)]
            /\ UNCHANGED local
       ELSE IF rows = {}
       THEN /\ pc' = [pc EXCEPT ![p] = "done"]
            /\ result' = [result EXCEPT ![p] = Return(FALSE, MsgNotRegistered)]
            /\ UNCHANGED local
       ELSE /\ pc' = [pc EXCEPT ![p] = "unreg_commit"]
            /\ local' = [local EXCEPT ![p] =
                            [NoLocal EXCEPT !.id = CHOOSE i \in rows : TRUE,
                                            !.status = CANCELED]]
            /\ UNCHANGED result
    /\ UNCHANGED <<meetings, regs, writer, concurrent_updates, uservars, convvars, schedvars>>

\* mutant: the freed slot goes to the first waitlisted registration
unregister_commit_promotes(p) ==
    /\ pc[p] = "unreg_commit"
    /\ writer = 0
    /\ LET R == [regs EXCEPT ![local[p].id].status = local[p].status]
           W == {i \in DOMAIN R : /\ R[i].meeting_id = args[p].m
                                  /\ R[i].status = WAITLISTED}
       IN  regs' = IF W = {} THEN R
                   ELSE [R EXCEPT ![CHOOSE i \in W : \A j \in W : i <= j].status = CONFIRMED]
    /\ result' = [result EXCEPT ![p] = Return(TRUE, MsgUnregistered)]
    /\ pc' = [pc EXCEPT ![p] = "done"]
    /\ UNCHANGED <<meetings, writer, args, local, pre, concurrent_updates, uservars, convvars, schedvars>>

\* mutant: the row goes back to the waitlist instead of being canceled
unregister_commit_waitlists(p) ==
    /\ pc[p] = "unreg_commit"
    /\ writer = 0
    /\ regs' = [regs EXCEPT ![local[p].id].status = WAITLISTED]
    /\ result' = [result EXCEPT ![p] = Return(TRUE, MsgUnregistered)]
    /\ pc' = [pc EXCEPT ![p] = "done"]
    /\ UNCHANGED <<meetings, writer, args, local, pre, concurrent_updates, uservars, convvars, schedvars>>

\* lines 169-170: commit (UPDATE registrations SET status WHERE id, COMMIT)
unregister_commit(p) ==
    /\ pc[p] = "unreg_commit"
    /\ writer = 0
    /\ regs' = [regs EXCEPT ![local[p].id].status = local[p].status]
    /\ result' = [result EXCEPT ![p] = Return(TRUE, MsgUnregistered)]
    /\ pc' = [pc EXCEPT ![p] = "done"]
    /\ UNCHANGED <<meetings, writer, args, local, pre, concurrent_updates, uservars, convvars, schedvars>>

(* ---- Database.create_meeting, storage.py:49-68 ---- *)

\* lines 52-62: s.add(m), flush: the INSERT opens the session's write
\* transaction and assigns m.id; the row is not yet visible to others
create_meeting_flush(p, host_id, max_participants) ==
    /\ MayStart(p)
    /\ writer = 0
    /\ Len(meetings) < MaxMeetings
    /\ Len(regs) < MaxRegs
    /\ writer' = p
    /\ args' = [args EXCEPT ![p] = [op |-> "create_meeting", m |-> 0, u |-> host_id,
                                    cap |-> max_participants]]
    /\ pre' = [pre EXCEPT ![p] = Snapshot]
    /\ local' = [local EXCEPT ![p] = [NoLocal EXCEPT !.id = Len(meetings) + 1,
                                                     !.cap = max_participants]]
    /\ pc' = [pc EXCEPT ![p] = "cm_commit"]
    /\ UNCHANGED <<meetings, regs, result, concurrent_updates, uservars, convvars, schedvars>>

\* lines 63-66: s.add(reg), commit: meeting and host registration
\* become visible together
create_meeting_commit(p) ==
    /\ pc[p] = "cm_commit"
    /\ writer = p
    /\ meetings' = Append(meetings, [created_by |-> args[p].u,
                                     max_participants |-> local[p].cap,
                                     canceled |-> FALSE])
    /\ regs' = Append(regs, HostRegistration(local[p].id, args[p].u))
    /\ writer' = 0
    /\ pc' = [pc EXCEPT ![p] = "cm_refresh"]
    /\ UNCHANGED <<args, local, result, pre, concurrent_updates, uservars, convvars, schedvars>>

\* lines 67-68: refresh(m), return m
create_meeting_refresh(p) ==
    /\ pc[p] = "cm_refresh"
    /\ result' = [result EXCEPT ![p] = [kind |-> "return", ok |-> TRUE, msg |-> "",
                                        m |-> local[p].id]]
    /\ pc' = [pc EXCEPT ![p] = "done"]
    /\ UNCHANGED <<meetings, regs, writer, args, local, pre, concurrent_updates, uservars, convvars, schedvars>>

(* ---- the caller ---- *)

\* handlers.py:450-451, 467-468, 489-490, 344-346: the handler sends its
\* reply and ends (an exception ends it without a reply)
handler_done(p) ==
    /\ pc[p] = "done"
    /\ pc' = [pc EXCEPT ![p] = "idle"]
    /\ args' = [args EXCEPT ![p] = NoArgs]
    /\ local' = [local EXCEPT ![p] = NoLocal]
    /\ result' = [result EXCEPT ![p] = NoResult]
    /\ pre' = [pre EXCEPT ![p] = NoPre]
    /\ user_args' = [user_args EXCEPT ![p] = NoProfile]
    /\ UNCHANGED <<meetings, regs, writer, concurrent_updates, users, my_meetings, convvars,
                   schedvars>>

\* mutant: the reminder jobs of the meeting are withdrawn with it
set_canceled_at_WithdrawsJobs(m) ==
    /\ m \in DOMAIN meetings
    /\ ~meetings[m].canceled
    /\ writer = 0
    /\ meetings' = [meetings EXCEPT ![m].canceled = TRUE]
    /\ LET KeepsJob(j) == ~(j.func = "_reminder_job" /\ j.arg = m)
           KeepsEntry(e) == KeepsJob(e.job)
       IN  /\ pending_jobs' = SelectSeq(pending_jobs, KeepsJob)
           /\ jobs' = SelectSeq(jobs, KeepsEntry)
    /\ sched_op' = NoSchedOp
    /\ UNCHANGED <<regs, writer, pc, args, local, result, pre, concurrent_updates, uservars, convvars,
                   now, start_at_utc, settings, sched_state, tasks, outbox>>

\* models.py:43: Meeting.canceled_at is set (no method of Database sets
\* it; the column is written by whoever administers the table)
set_canceled_at(m) ==
    /\ m \in DOMAIN meetings
    /\ ~meetings[m].canceled
    /\ writer = 0
    /\ meetings' = [meetings EXCEPT ![m].canceled = TRUE]
    /\ sched_op' = NoSchedOp
    /\ UNCHANGED <<regs, writer, pc, args, local, result, pre, concurrent_updates, uservars, convvars,
                   now, start_at_utc, settings, sched_state, pending_jobs, jobs, tasks,
                   outbox>>

\* mutant: the job is added without a look at the channel id
schedule_announcements_NoCheck ==
    /\ sched_state = STOPPED => Len(pending_jobs) < MaxPending
    /\ LET lists == AddJob(sched_state, pending_jobs, jobs,
                           Job(AnnouncementsJobId, CronTrigger(settings.announce_days),
                               "_announcement_job",
                               settings.announcements_channel_id), now)
       IN  /\ pending_jobs' = lists.pending
           /\ jobs' = lists.jobs
    /\ sched_op' = SchedOp("schedule_announcements", 0, 0)
    /\ UNCHANGED <<meetings, regs, writer, pc, args, local, result, pre, concurrent_updates, uservars, convvars,
                   now, start_at_utc, settings, sched_state, tasks, outbox>>

\* BotScheduler.schedule_announcements(days, t, channel_id),
\* scheduler.py:64-75, as main.py:50-51 calls it
schedule_announcements ==
    /\ sched_state = STOPPED => Len(pending_jobs) < MaxPending
    /\ LET lists == IF settings.announcements_channel_id = NoChannel
                    THEN [pending |-> pending_jobs, jobs |-> jobs]
                    ELSE AddJob(sched_state, pending_jobs, jobs,
                                Job(AnnouncementsJobId, CronTrigger(settings.announce_days),
                                    "_announcement_job",
                                    settings.announcements_channel_id), now)
       IN  /\ pending_jobs' = lists.pending
           /\ jobs' = lists.jobs
    /\ sched_op' = SchedOp("schedule_announcements", 0, 0)
    /\ UNCHANGED <<meetings, regs, writer, pc, args, local, result, pre, concurrent_updates, uservars, convvars,
                   now, start_at_utc, settings, sched_state, tasks, outbox>>

\* BotScheduler.start(), scheduler.py:32-35 (main.py:57, handlers.py:98-99)
start ==
    /\ sched_state # RUNNING
    /\ sched_state' = RUNNING
    /\ jobs' = RealAddAll(jobs, pending_jobs, now)
    /\ pending_jobs' = <<>>
    /\ sched_op' = NoSchedOp
    /\ UNCHANGED <<meetings, regs, writer, pc, args, local, result, pre, concurrent_updates, uservars, convvars,
                   now, start_at_utc, settings, tasks, outbox>>

\* BotScheduler.shutdown(), scheduler.py:37-40, at main.py:73: the
\* scheduler stops, its memory job store is emptied, and the handler
\* coroutines in flight are cancelled (AsyncIOExecutor.shutdown cancels its
\* pending futures; asyncio.run cancels the tasks left when main_async ends)
shutdown ==
    /\ sched_state = RUNNING
    /\ sched_state' = STOPPED
    /\ jobs' = <<>>
    /\ tasks' = {}
    /\ sched_op' = [NoSchedOp EXCEPT !.op = "shutdown"]
    /\ UNCHANGED <<meetings, regs, writer, pc, args, local, result, pre, concurrent_updates, uservars, convvars,
                   now, start_at_utc, settings, pending_jobs, outbox>>

\* handlers.py:322-333: db.create_meeting(...) and then
\* self.scheduler.schedule_meeting_reminders(meeting)
create_meeting_finish(host_id, max_participants, start_utc) ==
    /\ Len(meetings) < MaxMeetings
    /\ LET m == Len(meetings) + 1
           lists == PlanAll([pending |-> pending_jobs, jobs |-> jobs], sched_state,
                            m, start_utc, DaysBefore, now)
       IN  /\ Len(lists.pending) <= MaxPending
           /\ meetings' = Append(meetings, [created_by |-> host_id,
                                            max_participants |-> max_participants,
                                            canceled |-> FALSE])
           /\ start_at_utc' = Append(start_at_utc, start_utc)
           /\ regs' = Append(regs, HostRegistration(m, host_id))
           /\ pending_jobs' = lists.pending
           /\ jobs' = lists.jobs
           /\ sched_op' = SchedOp("create_meeting", m, start_utc)
    /\ UNCHANGED <<writer, pc, args, local, result, pre, concurrent_updates, uservars, convvars,
                   now, settings, sched_state, tasks, outbox>>

\* models.py:36: Meeting.start_at_utc is edited (no method of Database
\* writes it; the column is written by whoever administers the table)
set_start_at_utc(m, start_utc) ==
    /\ m \in DOMAIN meetings
    /\ start_at_utc[m] # start_utc
    /\ start_at_utc' = [start_at_utc EXCEPT ![m] = start_utc]
    /\ sched_op' = NoSchedOp
    /\ UNCHANGED <<meetings, regs, writer, pc, args, local, result, pre, concurrent_updates, uservars, convvars,
                   now, settings, sched_state, pending_jobs, jobs, tasks, outbox>>

\* a job of the store is due
Due(entry) == entry.next_run_time # NoRunTime /\ entry.next_run_time <= now

\* a day passes.  The timer of a running scheduler wakes it for every due
\* job before the clock moves on
tick ==
    /\ now < MaxNow
    /\ sched_state = RUNNING => \A i \in DOMAIN jobs : ~Due(jobs[i])
    /\ now' = now + 1
    /\ sched_op' = NoSchedOp
    /\ UNCHANGED <<meetings, regs, writer, pc, args, local, result, pre, concurrent_updates, uservars, convvars,
                   start_at_utc, settings, sched_state, pending_jobs, jobs, tasks, outbox>>

\* the store without its entry i
RemoveAt(store, i) ==
    [k \in 1..(Len(store) - 1) |-> IF k < i THEN store[k] ELSE store[k + 1]]

\* the handler coroutine the executor starts for a job
NewTask(job) ==
    [job_id |-> job.id, func |-> job.func, arg |-> job.arg, pc |-> "start",
     now_utc |-> 0, text |-> <<>>]

\* mutant: a fired job stays in the store with its run time
AfterRun_KeepsJob(store, i) == store

\* BaseScheduler._process_jobs: after the run the job gets its trigger's
\* next fire time, and leaves the store if there is none
AfterRun(store, i) ==
    LET next == NextFireTime(store[i].job.trigger, store[i].next_run_time, now + 1)
    IN  IF next = NoRunTime THEN RemoveAt(store, i)
        ELSE [store EXCEPT ![i].next_run_time = next]

\* BaseScheduler._process_jobs for the due job i of a running scheduler:
\* the handler is started if the run time is not missed (misfire grace
\* time: a second) and no instance of the job is in flight (max_instances:
\* 1), scheduler.py:50-56, 69-75 with the defaults of scheduler.py:28
process_jobs(i) ==
    /\ sched_state = RUNNING
    /\ i \in DOMAIN jobs
    /\ Due(jobs[i])
    /\ LET job == jobs[i].job
           missed == jobs[i].next_run_time < now
           busy == \E t \in tasks : t.job_id = job.id
       IN  tasks' = IF missed \/ busy THEN tasks ELSE tasks \cup {NewTask(job)}
    /\ jobs' = AfterRun(jobs, i)
    /\ sched_op' = NoSchedOp
    /\ UNCHANGED <<meetings, regs, writer, pc, args, local, result, pre, concurrent_updates, uservars, convvars,
                   now, start_at_utc, settings, sched_state, pending_jobs, outbox>>

\* BotScheduler._reminder_job, scheduler.py:58-62
reminder_job(t) ==
    /\ t \in tasks
    /\ t.func = "_reminder_job"
    /\ tasks' = tasks \ {t}
    /\ sched_op' = NoSchedOp
    /\ UNCHANGED <<meetings, regs, writer, pc, args, local, result, pre, concurrent_updates, uservars, convvars,
                   now, start_at_utc, settings, sched_state, pending_jobs, jobs, outbox>>

\* Database.list_upcoming_meetings(now_utc), storage.py:75-81: the ids of
\* the meetings in S, by start (meetings of one start by id)
RECURSIVE OrderByStart(_)
OrderByStart(S) ==
    IF S = {} THEN <<>>
    ELSE LET m == CHOOSE x \in S : \A y \in S :
                      \/ start_at_utc[x] < start_at_utc[y]
                      \/ start_at_utc[x] = start_at_utc[y] /\ x <= y
         IN  <<m>> \o OrderByStart(S \ {m})

\* mutant: a meeting starting at now_utc itself is left out
list_upcoming_meetings_AfterOnly(now_utc) ==
    OrderByStart({m \in DOMAIN meetings :
                     ~meetings[m].canceled /\ start_at_utc[m] > now_utc})

\* storage.py:75-81: the meetings not canceled that start at now_utc or
\* later, by ascending start
list_upcoming_meetings(now_utc) ==
    OrderByStart({m \in DOMAIN meetings :
                     ~meetings[m].canceled /\ start_at_utc[m] >= now_utc})

\* scheduler.py:88: the line of a meeting (its id and its start)
DigestLine(m) == <<m, start_at_utc[m]>>

\* mutant: the digest is not cut
DigestText_Uncut(listing) ==
    IF listing = <<>> THEN <<TextNoUpcoming>>
    ELSE <<TextUpcoming>> \o [k \in 1..Len(listing) |-> DigestLine(listing[k])]

\* scheduler.py:82-89: the text, as the sequence of its lines
DigestText(listing) ==
    IF listing = <<>> THEN <<TextNoUpcoming>>
    ELSE <<TextUpcoming>> \o
         [k \in 1..(IF Len(listing) < DigestLimit THEN Len(listing) ELSE DigestLimit)
            |-> DigestLine(listing[k])]

\* BotScheduler._announcement_job, scheduler.py:80-89: read the clock,
\* await the listing, compose the text
announcement_job_list(t) ==
    /\ t \in tasks
    /\ t.func = "_announcement_job"
    /\ t.pc = "start"
    /\ tasks' = (tasks \ {t}) \cup
                {[t EXCEPT !.pc = "send", !.now_utc = now,
                           !.text = DigestText(list_upcoming_meetings(now))]}
    /\ sched_op' = NoSchedOp
    /\ UNCHANGED <<meetings, regs, writer, pc, args, local, result, pre, concurrent_updates, uservars, convvars,
                   now, start_at_utc, settings, sched_state, pending_jobs, jobs, outbox>>

\* mutant: the message is sent a second time
announcement_job_send_Twice(t) ==
    /\ t \in tasks
    /\ t.func = "_announcement_job"
    /\ t.pc = "send"
    /\ Len(outbox) < MaxOutbox
    /\ outbox' = outbox \o << [chat_id |-> t.arg, text |-> t.text],
                              [chat_id |-> t.arg, text |-> t.text] >>
    /\ tasks' = tasks \ {t}
    /\ sched_op' = NoSchedOp
    /\ UNCHANGED <<meetings, regs, writer, pc, args, local, result, pre, concurrent_updates, uservars, convvars,
                   now, start_at_utc, settings, sched_state, pending_jobs, jobs>>

\* scheduler.py:90 and main.py:41-42: send_message delivers the text
announcement_job_send(t) ==
    /\ t \in tasks
    /\ t.func = "_announcement_job"
    /\ t.pc = "send"
    /\ Len(outbox) < MaxOutbox
    /\ outbox' = Append(outbox, [chat_id |-> t.arg, text |-> t.text])
    /\ tasks' = tasks \ {t}
    /\ sched_op' = NoSchedOp
    /\ UNCHANGED <<meetings, regs, writer, pc, args, local, result, pre, concurrent_updates, uservars, convvars,
                   now, start_at_utc, settings, sched_state, pending_jobs, jobs>>

\* mutant: the failure of a handler stops the scheduler and empties its store
announcement_job_send_fails_Stops(t) ==
    /\ t \in tasks
    /\ t.func = "_announcement_job"
    /\ t.pc = "send"
    /\ tasks' = tasks \ {t}
    /\ sched_state' = STOPPED
    /\ jobs' = <<>>
    /\ sched_op' = [NoSchedOp EXCEPT !.op = "job_error"]
    /\ UNCHANGED <<meetings, regs, writer, pc, args, local, result, pre, concurrent_updates, uservars, convvars,
                   now, start_at_utc, settings, pending_jobs, outbox>>

\* scheduler.py:90 and main.py:41-42: send_message raises; the executor
\* logs the exception of the job (run_coroutine_job) and the coroutine ends
announcement_job_send_fails(t) ==
    /\ t \in tasks
    /\ t.func = "_announcement_job"
    /\ t.pc = "send"
    /\ tasks' = tasks \ {t}
    /\ sched_op' = [NoSchedOp EXCEPT !.op = "job_error"]
    /\ UNCHANGED <<meetings, regs, writer, pc, args, local, result, pre, concurrent_updates, uservars, convvars,
                   now, start_at_utc, settings, sched_state, pending_jobs, jobs, outbox>>

\* main.py:25-51: the settings are loaded, the scheduler is constructed and
\* not yet started, the tables are empty
InitSched ==
    /\ concurrent_updates = FALSE
    /\ meetings = <<>>
    /\ regs = <<>>
    /\ writer = 0
    /\ pc = [p \in Procs |-> "idle"]
    /\ args = [p \in Procs |-> NoArgs]
    /\ local = [p \in Procs |-> NoLocal]
    /\ result = [p \in Procs |-> NoResult]
    /\ pre = [p \in Procs |-> NoPre]
    /\ NoConversation
    /\ NoUsers
    /\ settings \in SettingsChoices
    /\ SchedulerConstructed

NextSched ==
    \/ schedule_announcements
    \/ start
    \/ shutdown
    \/ \E d \in StartDelays : create_meeting_finish(Min(Users), Min(Caps), now + d)
    \/ \E m \in MeetingIds : schedule_meeting_reminders(m)
    \/ \E m \in MeetingIds, d \in EditDelays : set_start_at_utc(m, now + d)
    \/ \E m \in MeetingIds : set_canceled_at(m)
    \/ tick
    \/ \E i \in 1..MaxPending : process_jobs(i)
    \/ \E t \in tasks : reminder_job(t)
    \/ \E t \in tasks : announcement_job_list(t)
    \/ \E t \in tasks : announcement_job_send(t)
    \/ \E t \in tasks : announcement_job_send_fails(t)

\* the scheduler, its jobs and their handlers
SpecSched == InitSched /\ [][NextSched]_vars

\* the reminders of meetings whose start is edited, later or earlier,
\* between the calls of schedule_meeting_reminders
NextReplan ==
    \/ start
    \/ \E d \in StartDelays : create_meeting_finish(Min(Users), Min(Caps), now + d)
    \/ \E m \in MeetingIds : schedule_meeting_reminders(m)
    \/ \E m \in MeetingIds, d \in EditDelays \cup EarlierEditDelays :
          set_start_at_utc(m, now + d)
    \/ tick
    \/ \E i \in 1..MaxPending : process_jobs(i)
    \/ \E t \in tasks : reminder_job(t)

SpecReplan == InitSched /\ [][NextReplan]_vars

\* two meetings created one after the other by the first user, with their
\* capacities, and the Database methods called from concurrent tasks
InitApart ==
    /\ concurrent_updates = TRUE
    /\ \E c1, c2 \in Caps :
          meetings = << [created_by |-> Min(Users), max_participants |-> c1,
                         canceled |-> FALSE],
                        [created_by |-> Min(Users), max_participants |-> c2,
                         canceled |-> FALSE] >>
    /\ regs = << HostRegistration(1, Min(Users)), HostRegistration(2, Min(Users)) >>
    /\ writer = 0
    /\ pc = [p \in Procs |-> "idle"]
    /\ args = [p \in Procs |-> NoArgs]
    /\ local = [p \in Procs |-> NoLocal]
    /\ result = [p \in Procs |-> NoResult]
    /\ pre = [p \in Procs |-> NoPre]
    /\ NoConversation
    /\ NoUsers
    /\ settings = DefaultSettings
    /\ now = 0
    /\ start_at_utc = <<0, 0>>
    /\ sched_state = STOPPED
    /\ pending_jobs = <<>>
    /\ jobs = <<>>
    /\ tasks = {}
    /\ outbox = <<>>
    /\ sched_op = NoSchedOp

\* the user who registers for both meetings and unregisters from them
ApartUsers == {2}

\* the meeting whose users task p serves
MeetingOf(p) == p

\* register and unregister calls for different meetings, each meeting's
\* calls made by its own task
NextApart ==
    \/ \E p \in Procs, u \in ApartUsers : register_get(p, MeetingOf(p), u)
    \/ \E p \in Procs : register_existing(p)
    \/ \E p \in Procs : register_count(p)
    \/ \E p \in Procs : register_commit(p)
    \/ \E p \in Procs, u \in ApartUsers : unregister_select(p, MeetingOf(p), u)
    \/ \E p \in Procs : unregister_commit(p)
    \/ \E p \in Procs : handler_done(p)
    \/ \E p \in Procs : set_canceled_at(MeetingOf(p))

SpecApart == InitApart /\ [][NextApart]_vars

\* the start of meeting i in a table whose starts go round the days
\* 1..StartSpan by the stride
StartOf(i, stride) == 1 + ((i * stride) % StartSpan)

\* main.py:25-57 on day 0, with a destination configured and n meetings in
\* the table, every c-th of them canceled (none for c = 0): the digest job
\* is stored in the running scheduler
InitDigest ==
    /\ concurrent_updates = FALSE
    /\ writer = 0
    /\ pc = [p \in Procs |-> "idle"]
    /\ args = [p \in Procs |-> NoArgs]
    /\ local = [p \in Procs |-> NoLocal]
    /\ result = [p \in Procs |-> NoResult]
    /\ pre = [p \in Procs |-> NoPre]
    /\ NoConversation
    /\ NoUsers
    /\ \E n \in 0..MaxDigestMeetings, stride \in {1, 2}, c \in {0, 3} :
          /\ meetings = [i \in 1..n |-> [created_by |-> Min(Users),
                                         max_participants |-> Min(Caps),
                                         canceled |-> (c # 0 /\ i % c = 0)]]
          /\ start_at_utc = [i \in 1..n |-> StartOf(i, stride)]
          /\ regs = [i \in 1..n |-> HostRegistration(i, Min(Users))]
    /\ settings = [announcements_channel_id |-> ChannelId, announce_days |-> {1, 2, 15}]
    /\ now = 0
    /\ sched_state = RUNNING
    /\ pending_jobs = <<>>
    /\ jobs = RealAddJob(<<>>, Job(AnnouncementsJobId, CronTrigger(settings.announce_days),
                                   "_announcement_job",
                                   settings.announcements_channel_id), now)
    /\ tasks = {}
    /\ outbox = <<>>
    /\ sched_op = NoSchedOp

NextDigest ==
    \/ tick
    \/ \E i \in 1..MaxPending : process_jobs(i)
    \/ \E m \in 1..MaxLateCancel : set_canceled_at(m)
    \/ \E t \in tasks : announcement_job_list(t)
    \/ \E t \in tasks : announcement_job_send(t)
    \/ \E t \in tasks : announcement_job_send_fails(t)

\* the digest job over tables of up to MaxDigestMeetings meetings
SpecDigest == InitDigest /\ [][NextDigest]_vars

Next ==
    \/ \E p \in Procs, m \in MeetingIds, u \in Users : register_get(p, m, u)
    \/ \E p \in Procs : register_existing(p)
    \/ \E p \in Procs : register_count(p)
    \/ \E p \in Procs : register_commit(p)
    \/ \E p \in Procs, m \in MeetingIds, u \in Users : unregister_select(p, m, u)
    \/ \E p \in Procs : unregister_commit(p)
    \/ \E p \in Procs, u \in Users, c \in Caps : create_meeting_flush(p, u, c)
    \/ \E p \in Procs : create_meeting_commit(p)
    \/ \E p \in Procs : create_meeting_refresh(p)
    \/ \E p \in Procs : handler_done(p)
    \/ \E m \in MeetingIds : set_canceled_at(m)

\* the handlers run one at a time
Spec == Init /\ [][Next]_vars

\* the Database methods run in concurrent tasks
SpecConc == InitConc /\ [][Next]_vars

(* ---- the calls of start() and shutdown(), scheduler.py:32-40 ---- *)

\* AsyncIOScheduler.start(): a scheduler that is not stopped raises
\* SchedulerAlreadyRunningError and stays as it is
BaseStart(state) ==
    IF state # STOPPED THEN [state |-> state, raised |-> TRUE]
    ELSE [state |-> RUNNING, raised |-> FALSE]

\* AsyncIOScheduler.shutdown(wait=False): a stopped scheduler raises
\* SchedulerNotRunningError
BaseShutdown(state) ==
    IF state = STOPPED THEN [state |-> state, raised |-> TRUE]
    ELSE [state |-> STOPPED, raised |-> FALSE]

\* mutant: start() is passed on without a look at the running flag
StartCall_Unguarded(state) == BaseStart(state)

\* BotScheduler.start(), scheduler.py:32-35: if not self.scheduler.running
StartCall(state) ==
    IF state # RUNNING THEN BaseStart(state) ELSE [state |-> state, raised |-> FALSE]

\* BotScheduler.shutdown(), scheduler.py:37-40: if self.scheduler.running
ShutdownCall(state) ==
    IF state = RUNNING THEN BaseShutdown(state) ELSE [state |-> state, raised |-> FALSE]

\* a call of BotScheduler.start(), from main.py:57 or from the post_init
\* hook (handlers.py:98-99, 104), on a scheduler in any state: a scheduler
\* that starts takes its pending jobs into the store
BotScheduler_start ==
    /\ LET r == StartCall(sched_state)
           starts == sched_state = STOPPED /\ r.state = RUNNING
       IN  /\ sched_state' = r.state
           /\ jobs' = IF starts THEN RealAddAll(jobs, pending_jobs, now) ELSE jobs
           /\ pending_jobs' = IF starts THEN <<>> ELSE pending_jobs
           /\ sched_op' = IF r.raised THEN [NoSchedOp EXCEPT !.op = "lifecycle_error"]
                          ELSE SchedOp("start", 0, 0)
    /\ UNCHANGED <<meetings, regs, writer, pc, args, local, result, pre, concurrent_updates, uservars, convvars,
                   now, start_at_utc, settings, tasks, outbox>>

\* a call of BotScheduler.shutdown(), from main.py:73 or from the
\* post_shutdown hook (handlers.py:101-102, 105), on a scheduler in any
\* state: a scheduler that stops empties its store and cancels the
\* handlers in flight
BotScheduler_shutdown ==
    /\ LET r == ShutdownCall(sched_state)
           stops == sched_state = RUNNING /\ r.state = STOPPED
       IN  /\ sched_state' = r.state
           /\ jobs' = IF stops THEN <<>> ELSE jobs
           /\ tasks' = IF stops THEN {} ELSE tasks
           /\ sched_op' = IF r.raised THEN [NoSchedOp EXCEPT !.op = "lifecycle_error"]
                          ELSE SchedOp("shutdown", 0, 0)
    /\ UNCHANGED <<meetings, regs, writer, pc, args, local, result, pre, concurrent_updates, uservars, convvars,
                   now, start_at_utc, settings, pending_jobs, outbox>>

\* start() and shutdown() called in any order, with the jobs planned
\* between the calls and the clock
NextLifecycle ==
    \/ BotScheduler_start
    \/ BotScheduler_shutdown
    \/ schedule_announcements
    \/ \E d \in StartDelays : create_meeting_finish(Min(Users), Min(Caps), now + d)
    \/ tick
    \/ \E i \in 1..MaxPending : process_jobs(i)
    \/ \E t \in tasks : reminder_job(t)
    \/ \E t \in tasks : announcement_job_list(t)
    \/ \E t \in tasks : announcement_job_send(t)
    \/ \E t \in tasks : announcement_job_send_fails(t)

SpecLifecycle == InitSched /\ [][NextLifecycle]_vars

(* ---- the process and its restart, main.py:19-73 ---- *)

\* the announcements job main.py:50-51 asks for, scheduler.py:64-75
AnnouncementsPending ==
    IF settings.announcements_channel_id = NoChannel THEN <<>>
    ELSE <<Job(AnnouncementsJobId, CronTrigger(settings.announce_days),
               "_announcement_job", settings.announcements_channel_id)>>

RECURSIVE ReplanFrom(_, _, _)
\* the pending list with the reminders of the stored meetings 1..n planned
\* at the instant t
ReplanFrom(pending, n, t) ==
    IF n = 0 THEN pending
    ELSE PlanAll([pending |-> ReplanFrom(pending, n - 1, t), jobs |-> <<>>], STOPPED,
                 n, start_at_utc[n], DaysBefore, t).pending

\* mutant: the startup plans the reminders of the stored meetings again
Startup_Replans(t) ==
    RealAddAll(<<>>, ReplanFrom(AnnouncementsPending, Len(meetings), t), t)

\* main.py:45-57 at the instant t: a new BotScheduler with an empty memory
\* job store, schedule_announcements(...), scheduler.start().  The job
\* store of the started scheduler
Startup(t) == RealAddAll(<<>>, AnnouncementsPending, t)

\* the process ends (main.py:65-73, or it is killed) and main_async runs
\* again the given number of days later, main.py:32-57: the tables are
\* those of the database file, the scheduler, its jobs, the handlers in
\* flight and the conversations are new
restart(days) ==
    /\ sched_state = RUNNING
    /\ now + days <= MaxNow
    /\ now' = now + days
    /\ sched_state' = RUNNING
    /\ pending_jobs' = <<>>
    /\ jobs' = Startup(now + days)
    /\ tasks' = {}
    /\ sched_op' = [op |-> "restart", m |-> 0, start |-> now, now |-> now + days, nth |-> 1]
    /\ pc' = [p \in Procs |-> "idle"]
    /\ args' = [p \in Procs |-> NoArgs]
    /\ local' = [p \in Procs |-> NoLocal]
    /\ result' = [p \in Procs |-> NoResult]
    /\ pre' = [p \in Procs |-> NoPre]
    /\ user_args' = [p \in Procs |-> NoProfile]
    /\ my_meetings' = NoListing
    /\ writer' = 0
    /\ conversations' = [c \in Chats |-> END]
    /\ user_data' = Cleared
    /\ conv_op' = NoConvOp
    /\ UNCHANGED <<meetings, regs, users, concurrent_updates, start_at_utc, settings, outbox>>

\* main.py:25-57 on day 0: the settings are loaded, the tables are empty,
\* the scheduler is started
InitRestart ==
    /\ concurrent_updates = FALSE
    /\ meetings = <<>>
    /\ regs = <<>>
    /\ writer = 0
    /\ pc = [p \in Procs |-> "idle"]
    /\ args = [p \in Procs |-> NoArgs]
    /\ local = [p \in Procs |-> NoLocal]
    /\ result = [p \in Procs |-> NoResult]
    /\ pre = [p \in Procs |-> NoPre]
    /\ NoConversation
    /\ NoUsers
    /\ settings \in SettingsChoices
    /\ now = 0
    /\ start_at_utc = <<>>
    /\ sched_state = RUNNING
    /\ pending_jobs = <<>>
    /\ jobs = Startup(0)
    /\ tasks = {}
    /\ outbox = <<>>
    /\ sched_op = NoSchedOp

NextRestart ==
    \/ \E d \in 0..MaxNow : restart(d)
    \/ \E d \in StartDelays : create_meeting_finish(Min(Users), Min(Caps), now + d)
    \/ tick
    \/ \E i \in 1..MaxPending : process_jobs(i)
    \/ \E t \in tasks : reminder_job(t)
    \/ \E t \in tasks : announcement_job_list(t)
    \/ \E t \in tasks : announcement_job_send(t)
    \/ \E t \in tasks : announcement_job_send_fails(t)

\* the process, restarted at any time, with the meetings created in it
SpecRestart == InitRestart /\ [][NextRestart]_vars

(* ---- Database.get_or_create_user, storage.py:38-46 ---- *)

\* the await the caller goes on to when get_or_create_user has returned:
\* cmd_my goes on to the listing (handlers.py:411-413), a direct call ends
AfterUser(op) == IF op = "cmd_my" THEN "my_list" ELSE "done"

\* the row s.add(User(id=user_id, name=name, username=username)) inserts;
\* created_at defaults to the instant of the insert (models.py:23)
NewUser(profile) ==
    [name |-> profile.name, username |-> profile.username, created_at |-> now]

\* the table with the row of user_id added
InsertUser(U, user_id, row) ==
    [u \in DOMAIN U \cup {user_id} |-> IF u = user_id THEN row ELSE U[u]]

\* lines 40-42 and 46: open the session, s.get(User, user_id); a user that
\* is found is returned as stored (result.msg carries the name of the row)
get_or_create_user_get(p, op, user_id, profile) ==
    /\ MayStart(p)
    /\ args' = [args EXCEPT ![p] = [op |-> op, m |-> 0, u |-> user_id, cap |-> 0]]
    /\ user_args' = [user_args EXCEPT ![p] = profile]
    /\ IF user_id \in DOMAIN users
       THEN /\ pc' = [pc EXCEPT ![p] = AfterUser(op)]
            /\ result' = [result EXCEPT ![p] = Return(TRUE, users[user_id].name)]
       ELSE /\ pc' = [pc EXCEPT ![p] = "user_commit"]
            /\ UNCHANGED result
    /\ UNCHANGED <<meetings, regs, writer, local, pre, concurrent_updates, users, my_meetings,
                   convvars, schedvars>>

\* lines 43-46: s.add(u), commit (INSERT, COMMIT) and return.  The INSERT of
\* an id that another session has inserted meanwhile violates the primary
\* key (models.py:20) and the commit raises IntegrityError
get_or_create_user_commit(p) ==
    /\ pc[p] = "user_commit"
    /\ writer = 0
    /\ IF args[p].u \in DOMAIN users
       THEN /\ pc' = [pc EXCEPT ![p] = "done"]
            /\ result' = [result EXCEPT ![p] = Raise("IntegrityError")]
            /\ UNCHANGED users
       ELSE /\ users' = InsertUser(users, args[p].u, NewUser(user_args[p]))
            /\ pc' = [pc EXCEPT ![p] = AfterUser(args[p].op)]
            /\ result' = [result EXCEPT ![p] = Return(TRUE, user_args[p].name)]
    /\ UNCHANGED <<meetings, regs, writer, args, local, pre, concurrent_updates, user_args,
                   my_meetings, convvars, schedvars>>

\* get_or_create_user called for the users from concurrent tasks, as the
\* handlers call it first (handlers.py:146, 319, 360, 411, 441, 458, 481)
NextUsers ==
    \/ \E p \in Procs, u \in Users, f \in Profiles :
          get_or_create_user_get(p, "get_or_create_user", u, f)
    \/ \E p \in Procs : get_or_create_user_commit(p)
    \/ \E p \in Procs : handler_done(p)
    \/ tick

SpecUsers == InitConc /\ [][NextUsers]_vars

(* ---- Database.list_user_meetings, storage.py:83-92 ---- *)

\* the registrations I by the start of their meeting (registrations of one
\* start by id), each as the id of its meeting
RECURSIVE OrderRowsByStart(_)
OrderRowsByStart(I) ==
    IF I = {} THEN <<>>
    ELSE LET i == CHOOSE x \in I : \A y \in I :
                      \/ start_at_utc[regs[x].meeting_id] < start_at_utc[regs[y].meeting_id]
                      \/ /\ start_at_utc[regs[x].meeting_id] = start_at_utc[regs[y].meeting_id]
                         /\ x <= y
         IN  <<regs[i].meeting_id>> \o OrderRowsByStart(I \ {i})

\* storage.py:86-92: the meetings joined to the confirmed registrations of
\* the user, one row of the result per registration, by ascending start
list_user_meetings(user_id) ==
    OrderRowsByStart({i \in DOMAIN regs :
                         /\ regs[i].meeting_id \in DOMAIN meetings
                         /\ regs[i].user_id = user_id
                         /\ regs[i].status = CONFIRMED})

\* Database.list_user_meetings(user_id) called with the one argument it
\* takes (storage.py:83), at the instant now
call_list_user_meetings(user_id) ==
    /\ my_meetings' = [op |-> "list_user_meetings", user_id |-> user_id, now_utc |-> now,
                   rows |-> list_user_meetings(user_id)]
    /\ UNCHANGED <<meetings, regs, writer, pc, args, local, result, pre, concurrent_updates,
                   users, user_args, convvars, schedvars>>

\* BotApp.cmd_my, handlers.py:412-413: self.db.list_user_meetings(user.id,
\* now_utc) passes two arguments to a method that takes one (storage.py:83):
\* the call raises TypeError before the method runs
cmd_my_list(p) ==
    /\ pc[p] = "my_list"
    /\ result' = [result EXCEPT ![p] = Raise("TypeError")]
    /\ pc' = [pc EXCEPT ![p] = "done"]
    /\ UNCHANGED <<meetings, regs, writer, args, local, pre, concurrent_updates, uservars,
                   convvars, schedvars>>

\* the rows a user other than the creator holds for one meeting, oldest first
RowChoices ==
    { <<>>, <<CONFIRMED>>, <<WAITLISTED>>, <<CANCELED>>, <<CANCELED, CONFIRMED>>,
      <<CANCELED, WAITLISTED>> }

\* the registrations of the user for the meetings 1..n, rows[m] giving the
\* statuses of the rows for meeting m
RECURSIVE RowsFor(_, _, _)
RowsFor(rows, user_id, n) ==
    IF n = 0 THEN <<>>
    ELSE RowsFor(rows, user_id, n - 1)
         \o [k \in 1..Len(rows[n]) |-> NewRegistration(n, user_id, rows[n][k])]

\* the users who ask for their meetings: the creator and one other user
MyUsers == {Min(Users), Min(Users) + 1}

\* the tables on day 1 with NumListed meetings of the first user, their
\* starts between day 0 and day StartSpan, and the registrations of the
\* second user for them; the scheduler runs and stores no job
InitMy ==
    /\ concurrent_updates = FALSE
    /\ writer = 0
    /\ pc = [p \in Procs |-> "idle"]
    /\ args = [p \in Procs |-> NoArgs]
    /\ local = [p \in Procs |-> NoLocal]
    /\ result = [p \in Procs |-> NoResult]
    /\ pre = [p \in Procs |-> NoPre]
    /\ NoConversation
    /\ users = InsertUser(<<>>, Min(Users),
                          [name |-> "Ann", username |-> None, created_at |-> 0])
    /\ user_args = [p \in Procs |-> NoProfile]
    /\ my_meetings = NoListing
    /\ meetings = [i \in 1..NumListed |-> [created_by |-> Min(Users),
                                           max_participants |-> MaxCap,
                                           canceled |-> FALSE]]
    /\ \E starts \in [1..NumListed -> 0..StartSpan],
          rows \in [1..NumListed -> RowChoices] :
          /\ start_at_utc = starts
          /\ regs = [i \in 1..NumListed |-> HostRegistration(i, Min(Users))]
                    \o RowsFor(rows, Min(Users) + 1, NumListed)
    /\ settings = DefaultSettings
    /\ now = 1
    /\ sched_state = RUNNING
    /\ pending_jobs = <<>>
    /\ jobs = <<>>
    /\ tasks = {}
    /\ outbox = <<>>
    /\ sched_op = NoSchedOp

NextMy ==
    \/ \E p \in Procs, u \in MyUsers, f \in Profiles : get_or_create_user_get(p, "cmd_my", u, f)
    \/ \E p \in Procs : get_or_create_user_commit(p)
    \/ \E p \in Procs : cmd_my_list(p)
    \/ \E p \in Procs : handler_done(p)
    \/ \E u \in MyUsers : call_list_user_meetings(u)
    \/ tick

\* /my_meetings and the listing it asks for, over tables of NumListed meetings
SpecMy == InitMy /\ [][NextMy]_vars

(***************************************************************************)
(* Properties                                                              *)
(***************************************************************************)

Cap(m) == meetings[m].max_participants

\* task p's call has returned or raised and its handler has not ended yet
Done(p, op) == pc[p] = "done" /\ args[p].op = op

\* the tables when task p's call was made
PreLive(p) == LiveRowsIn(pre[p].regs, args[p].m, args[p].u)
PreActive(p) == IsActiveIn(pre[p].meetings, args[p].m)
PreConfirmed(p) == ConfirmedCountIn(pre[p].regs, args[p].m)

\* C1: with the calls run one at a time, every meeting with capacity
\* C >= 1 has at most C confirmed registrations, the creator's included.
C1_CapacityRespected ==
    \A m \in DOMAIN meetings : Cap(m) >= 1 => confirmedCount(m) <= Cap(m)

\* a meeting of capacity 2 is full and a later registrant is waitlisted
C1_Witness ==
    \E m \in DOMAIN meetings :
        /\ Cap(m) = 2
        /\ confirmedCount(m) = 2
        /\ \E i \in DOMAIN regs : regs[i].meeting_id = m /\ regs[i].status = WAITLISTED

\* C2: two register calls of different users that run concurrently on a
\* meeting with exactly one free confirmed slot do not both take the
\* confirmed status, and the confirmed count stays within the capacity.
C2_OneFreeSlotOneConfirmed ==
    \A p, q \in Procs :
        ( /\ p # q
          /\ args[p].op = "register" /\ args[q].op = "register"
          /\ args[p].m = args[q].m /\ args[p].u # args[q].u
          /\ PreActive(p) /\ PreActive(q)
          /\ PreConfirmed(p) = pre[p].meetings[args[p].m].max_participants - 1
          /\ PreConfirmed(q) = pre[q].meetings[args[q].m].max_participants - 1 )
        => /\ ~(local[p].status = CONFIRMED /\ local[q].status = CONFIRMED)
           /\ confirmedCount(args[p].m) <= Cap(args[p].m)

\* C3: with the calls run one at a time, each (meeting, user) pair has at
\* most one registration that is confirmed or waitlisted.
C3_AtMostOneLive ==
    \A m \in MeetingIds, u \in Users : Cardinality(LiveRowsIn(regs, m, u)) <= 1

\* C4: two register calls made concurrently for one (meeting, user) pair
\* that had no live registration end with exactly one live registration
\* of the pair, one call returning success, the other already_registered.
C4_ConcurrentSamePair ==
    \A p, q \in Procs :
        ( /\ p # q
          /\ Done(p, "register") /\ Done(q, "register")
          /\ args[p].m = args[q].m /\ args[p].u = args[q].u
          /\ PreActive(p) /\ PreActive(q)
          /\ PreLive(p) = {} /\ PreLive(q) = {} )
        => /\ Cardinality(LiveRowsIn(regs, args[p].m, args[p].u)) = 1
           /\ \/ result[p].ok /\ result[q] = Return(FALSE, MsgAlready)
              \/ result[q].ok /\ result[p] = Return(FALSE, MsgAlready)

\* C5: with the calls run one at a time, register by a user with no live
\* registration on an active meeting that holds as many confirmed
\* registrations as its capacity inserts a waitlisted registration and
\* returns the waitlisted outcome.
C5_FullMeansWaitlisted ==
    \A p \in Procs :
        ( /\ Done(p, "register")
          /\ PreActive(p)
          /\ PreLive(p) = {}
          /\ PreConfirmed(p) = pre[p].meetings[args[p].m].max_participants )
        => /\ result[p] = Return(TRUE, MsgFull)
           /\ regs = Append(pre[p].regs,
                            [meeting_id |-> args[p].m, user_id |-> args[p].u,
                             status |-> WAITLISTED, is_host |-> FALSE])

C5_Witness ==
    \E p \in Procs :
        /\ Done(p, "register")
        /\ PreActive(p)
        /\ PreLive(p) = {}
        /\ PreConfirmed(p) = pre[p].meetings[args[p].m].max_participants
        /\ result[p] = Return(TRUE, MsgFull)
        /\ Len(regs) = Len(pre[p].regs) + 1

\* C6: register by a user who already has a live registration (confirmed
\* or waitlisted) for the active meeting returns already_registered and
\* leaves the registrations unchanged.
C6_LiveMeansAlreadyRegistered ==
    \A p \in Procs :
        (Done(p, "register") /\ PreActive(p) /\ PreLive(p) # {})
        => (result[p] = Return(FALSE, MsgAlready) /\ regs = pre[p].regs)

\* C7: register on a meeting id that does not exist, or whose meeting is
\* canceled, returns not_found and inserts no registration.
C7_NotFound ==
    \A p \in Procs :
        (Done(p, "register") /\ ~PreActive(p))
        => (result[p] = Return(FALSE, MsgNotFound) /\ regs = pre[p].regs)

\* register was called on a canceled meeting
C7_Witness ==
    \E p \in Procs :
        /\ Done(p, "register")
        /\ args[p].m \in DOMAIN pre[p].meetings
        /\ pre[p].meetings[args[p].m].canceled
        /\ result[p] = Return(FALSE, MsgNotFound)

\* C8: create_meeting makes the meeting and the creator's confirmed
\* registration visible in one commit: no state of the tables holds a
\* meeting without a registration of its creator, and the commit that
\* makes a meeting visible leaves it with exactly one registration, the
\* creator's, confirmed, so that confirmedCount is 1.
C8_CreateAtomic ==
    /\ [](\A m \in DOMAIN meetings :
            \E i \in DOMAIN regs : /\ regs[i].meeting_id = m
                                   /\ regs[i].user_id = meetings[m].created_by)
    /\ [][\A m \in MeetingIds :
            (m \notin DOMAIN meetings /\ m \in DOMAIN meetings')
            => /\ RowsOf(regs', m) = << <<meetings'[m].created_by, CONFIRMED>> >>
               /\ ConfirmedCountIn(regs', m) = 1]_vars

\* a create_meeting call has just committed while another task's call,
\* which looked the meeting up before the commit, is still in flight
C8_Witness ==
    \E p, q \in Procs :
        /\ pc[p] = "cm_refresh"
        /\ local[p].id \in DOMAIN meetings
        /\ confirmedCount(local[p].id) = 1
        /\ Done(q, "register")
        /\ args[q].m = local[p].id
        /\ result[q] = Return(FALSE, MsgNotFound)

\* C9: unregister flips the user's live registration of the meeting to
\* canceled and returns unregistered when the user has one; otherwise it
\* returns not_registered and changes nothing.
C9_Unregister ==
    \A p \in Procs :
        Done(p, "unregister")
        => IF PreLive(p) # {}
           THEN /\ result[p] = Return(TRUE, MsgUnregistered)
                /\ LiveRowsIn(regs, args[p].m, args[p].u) = {}
                /\ DOMAIN regs = DOMAIN pre[p].regs
                /\ \A i \in DOMAIN regs :
                      regs[i] = IF i \in PreLive(p)
                                THEN [pre[p].regs[i] EXCEPT !.status = CANCELED]
                                ELSE pre[p].regs[i]
           ELSE /\ result[p] = Return(FALSE, MsgNotRegistered)
                /\ regs = pre[p].regs

\* C10 as stated: on a freshly created meeting of capacity 2, two users
\* other than the creator who register one after the other are both
\* confirmed, a third is then waitlisted with the meeting-is-full message,
\* and after the first unregisters the third is still waitlisted while
\* confirmedCount is 1.
C10_Original ==
    \A p \in Procs, m \in DOMAIN meetings, A, B, C \in Users :
        LET H == meetings[m].created_by
            c == CONFIRMED
            w == WAITLISTED
            x == CANCELED
        IN  (Cap(m) = 2 /\ args[p].m = m)
            => /\ (Done(p, "register") /\ PreActive(p) /\ args[p].u = A
                   /\ A # H
                   /\ RowsOf(pre[p].regs, m) = << <<H, c>> >>)
                  => /\ result[p] = Return(TRUE, MsgRegistered)
                     /\ RowsOf(regs, m) = << <<H, c>>, <<A, c>> >>
               /\ (Done(p, "register") /\ PreActive(p) /\ args[p].u = B
                   /\ Cardinality({H, A, B}) = 3
                   /\ RowsOf(pre[p].regs, m) = << <<H, c>>, <<A, c>> >>)
                  => /\ result[p] = Return(TRUE, MsgRegistered)
                     /\ RowsOf(regs, m) = << <<H, c>>, <<A, c>>, <<B, c>> >>
               /\ (Done(p, "register") /\ PreActive(p) /\ args[p].u = C
                   /\ Cardinality({H, A, B, C}) = 4
                   /\ RowsOf(pre[p].regs, m) = << <<H, c>>, <<A, c>>, <<B, c>> >>)
                  => /\ result[p] = Return(TRUE, MsgFull)
                     /\ RowsOf(regs, m) = << <<H, c>>, <<A, c>>, <<B, c>>, <<C, w>> >>
               /\ (Done(p, "unregister") /\ args[p].u = A
                   /\ Cardinality({H, A, B, C}) = 4
                   /\ RowsOf(pre[p].regs, m) = << <<H, c>>, <<A, c>>, <<B, c>>, <<C, w>> >>)
                  => /\ result[p] = Return(TRUE, MsgUnregistered)
                     /\ RowsOf(regs, m) = << <<H, c>>, <<A, x>>, <<B, c>>, <<C, w>> >>
                     /\ confirmedCount(m) = 1

\* C10 as amended: on a freshly created meeting of capacity 2 the creator
\* A holds one of the two confirmed slots; B registering next is
\* confirmed, C registering after B is waitlisted with the
\* meeting-is-full message, and after A unregisters C is still waitlisted
\* while confirmedCount is 1.
C10_CreatorTakesSlot ==
    \A p \in Procs, m \in DOMAIN meetings, B, C \in Users :
        LET A == meetings[m].created_by
            c == CONFIRMED
            w == WAITLISTED
            x == CANCELED
        IN  (Cap(m) = 2 /\ args[p].m = m /\ Cardinality({A, B, C}) = 3)
            => /\ (Done(p, "register") /\ PreActive(p) /\ args[p].u = B
                   /\ RowsOf(pre[p].regs, m) = << <<A, c>> >>)
                  => /\ result[p] = Return(TRUE, MsgRegistered)
                     /\ RowsOf(regs, m) = << <<A, c>>, <<B, c>> >>
               /\ (Done(p, "register") /\ PreActive(p) /\ args[p].u = C
                   /\ RowsOf(pre[p].regs, m) = << <<A, c>>, <<B, c>> >>)
                  => /\ result[p] = Return(TRUE, MsgFull)
                     /\ RowsOf(regs, m) = << <<A, c>>, <<B, c>>, <<C, w>> >>
               /\ (Done(p, "unregister") /\ args[p].u = A
                   /\ RowsOf(pre[p].regs, m) = << <<A, c>>, <<B, c>>, <<C, w>> >>)
                  => /\ result[p] = Return(TRUE, MsgUnregistered)
                     /\ RowsOf(regs, m) = << <<A, x>>, <<B, c>>, <<C, w>> >>
                     /\ confirmedCount(m) = 1

\* the creator has unregistered at the end of the scenario
C10_Witness ==
    \E p \in Procs, m \in DOMAIN meetings, B, C \in Users :
        LET A == meetings[m].created_by IN
        /\ Cap(m) = 2 /\ args[p].m = m /\ Cardinality({A, B, C}) = 3
        /\ Done(p, "unregister") /\ args[p].u = A
        /\ RowsOf(pre[p].regs, m) = << <<A, CONFIRMED>>, <<B, CONFIRMED>>, <<C, WAITLISTED>> >>
        /\ result[p] = Return(TRUE, MsgUnregistered)

\* row j of the registrations is confirmed for a meeting for which row i,
\* inserted by an earlier register call of another user, is waitlisted
Overtaken(i, j) ==
    /\ i < j
    /\ regs[i].meeting_id = regs[j].meeting_id
    /\ regs[i].user_id # regs[j].user_id
    /\ regs[i].status = WAITLISTED
    /\ regs[j].status = CONFIRMED

\* C11 as stated: with the calls run one at a time, no user is confirmed
\* for a meeting while another user whose register call for that meeting
\* came earlier still holds a waitlisted registration.
C11_Original ==
    \A i, j \in DOMAIN regs : ~Overtaken(i, j)

\* C11 as amended: with the calls run one at a time, a user is confirmed
\* while an earlier registrant of the meeting is still waitlisted only
\* when a registration of that meeting has been canceled (unregister frees
\* the slot and promotes nobody); as long as no registration of the
\* meeting is canceled, the confirmed registrations are the earliest ones.
C11_FirstComeUntilCancel ==
    \A i, j \in DOMAIN regs :
        Overtaken(i, j)
        => \E k \in DOMAIN regs : /\ regs[k].meeting_id = regs[i].meeting_id
                                   /\ regs[k].status = CANCELED

\* a later registrant took the slot freed by an unregister while an earlier
\* registrant is still waitlisted
C11_Witness ==
    \E p \in Procs, i, j \in DOMAIN regs :
        /\ Overtaken(i, j)
        /\ Done(p, "register")
        /\ j = Len(regs) /\ Len(pre[p].regs) = j - 1
        /\ result[p] = Return(TRUE, MsgRegistered)

(***************************************************************************)
(* Properties of the scheduler                                             *)
(***************************************************************************)

\* the pending jobs with this id, in order
PendingOf(pending, id) ==
    LET HasId(j) == j.id = id IN SelectSeq(pending, HasId)

\* the stored jobs with this id, in order
StoredOf(store, id) ==
    LET HasId(e) == e.job.id = id IN SelectSeq(store, HasId)

\* the step is a call of schedule_meeting_reminders, from the handler that
\* creates the meeting or on its own
PlansReminders ==
    /\ sched_op'.op \in {"schedule_meeting_reminders", "create_meeting"}
    /\ sched_op'.m \in DOMAIN meetings'

\* the step submits the reminder job of (m, d), firing at run_at: a
\* scheduler not yet started keeps it in its pending list, a running one
\* has it in its store under the id, once
SubmitsReminder(m, d, run_at) ==
    LET id == <<"meeting", m, "reminder", d>>
        job == [id |-> id, func |-> "_reminder_job", arg |-> m,
                trigger |-> [kind |-> "date", run_date |-> run_at, days |-> {}]]
    IN  IF sched_state = STOPPED
        THEN /\ PendingOf(pending_jobs', id) = Append(PendingOf(pending_jobs, id), job)
             /\ StoredOf(jobs', id) = StoredOf(jobs, id)
        ELSE /\ StoredOf(jobs', id) = << [job |-> job, next_run_time |-> run_at] >>
             /\ PendingOf(pending_jobs', id) = PendingOf(pending_jobs, id)

\* the step leaves the jobs of (m, d) as they are
SkipsReminder(m, d) ==
    LET id == <<"meeting", m, "reminder", d>>
    IN  /\ PendingOf(pending_jobs', id) = PendingOf(pending_jobs, id)
        /\ StoredOf(jobs', id) = StoredOf(jobs, id)

\* C12: schedule_meeting_reminders(meeting) submits, for each of the
\* offsets 3 days and 1 day, the job firing at start minus the offset under
\* the id of (meeting id, offset) if and only if that instant is strictly
\* later than now; for an instant that is now or past it submits nothing
\* and raises nothing, and it changes nothing but the job lists.
C12_SubmitsIffFuture ==
    [][PlansReminders =>
        /\ \A d \in {3, 1} :
              LET run_at == sched_op'.start - d
              IN  IF run_at > sched_op'.now
                  THEN SubmitsReminder(sched_op'.m, d, run_at)
                  ELSE SkipsReminder(sched_op'.m, d)
        /\ sched_state' = sched_state /\ tasks' = tasks /\ outbox' = outbox
        /\ Len(pending_jobs') + Len(jobs') <= Len(pending_jobs) + Len(jobs) + 2]_vars

\* a meeting starting in two days was planned on a running scheduler: the
\* 3-day instant is past, the 1-day job is stored
C12_Witness ==
    /\ sched_op.op = "schedule_meeting_reminders"
    /\ sched_state = RUNNING
    /\ sched_op.start - 3 <= sched_op.now
    /\ sched_op.start - 1 > sched_op.now
    /\ StoredOf(jobs, <<"meeting", sched_op.m, "reminder", 1>>) # <<>>
    /\ StoredOf(jobs, <<"meeting", sched_op.m, "reminder", 3>>) = <<>>

\* the ids of the jobs get_jobs() lists
JobIds(state, pending, store) ==
    IF state = STOPPED THEN {pending[k].id : k \in DOMAIN pending}
    ELSE {store[k].job.id : k \in DOMAIN store}

\* how many jobs get_jobs() lists under the id
TimesListed(state, pending, store, id) ==
    IF state = STOPPED THEN Len(PendingOf(pending, id)) ELSE Len(StoredOf(store, id))

\* the step is schedule_meeting_reminders called again for the meeting,
\* with the same start and at the same instant as the call before it
PlansAgain ==
    /\ sched_op'.op = "schedule_meeting_reminders"
    /\ sched_op'.nth = 2

\* C13 as stated: a second call of schedule_meeting_reminders for the same
\* meeting with the same start leaves the set of scheduled job ids of the
\* first call, and no id is listed twice, on a scheduler that has been
\* started and on one that has not.
C13_Original ==
    [][PlansAgain =>
        /\ JobIds(sched_state', pending_jobs', jobs')
             = JobIds(sched_state, pending_jobs, jobs)
        /\ \A d \in {3, 1} :
              TimesListed(sched_state', pending_jobs', jobs',
                          <<"meeting", sched_op'.m, "reminder", d>>) <= 1]_vars

\* C13 as amended: a second call leaves the set of scheduled job ids of the
\* first call, started or not.  On a running scheduler it leaves the job
\* store as it is, each id stored once.  On a scheduler not yet started
\* each call adds its jobs to the pending list, where an id then stands
\* twice with the same job, and start() keeps one job per id: a running
\* scheduler never holds an id twice.
C13_SameIdsOnceWhenRunning ==
    /\ [][PlansAgain =>
            /\ JobIds(sched_state', pending_jobs', jobs')
                 = JobIds(sched_state, pending_jobs, jobs)
            /\ sched_state = RUNNING => jobs' = jobs /\ pending_jobs' = pending_jobs
            /\ \A i, j \in DOMAIN pending_jobs' :
                  pending_jobs'[i].id = pending_jobs'[j].id
                  /\ pending_jobs'[i].func = "_reminder_job"
                  /\ pending_jobs'[i].arg = sched_op'.m
                  => pending_jobs'[i] = pending_jobs'[j]]_vars
    /\ [](sched_state = RUNNING =>
            /\ pending_jobs = <<>>
            /\ \A i, j \in DOMAIN jobs : jobs[i].job.id = jobs[j].job.id => i = j)

\* the second call was made on a running scheduler: both reminder jobs of
\* the meeting are stored, once each
C13_Witness ==
    /\ sched_state = RUNNING
    /\ \E m \in DOMAIN meetings :
          /\ Len(StoredOf(jobs, <<"meeting", m, "reminder", 3>>)) = 1
          /\ Len(StoredOf(jobs, <<"meeting", m, "reminder", 1>>)) = 1
          /\ sched_op.op = "schedule_meeting_reminders"
          /\ sched_op.nth = 2
          /\ sched_op.m = m

\* the ids of the reminder jobs get_jobs() lists for meeting m
ReminderIdsOf(m) ==
    {id \in JobIds(sched_state, pending_jobs, jobs) :
        Len(id) = 4 /\ id[1] = "meeting" /\ id[2] = m}

\* the instant at which the job listed under the id fires: the run date of
\* the stored job, or of the job last added under the id before start()
FiresAt(id) ==
    IF sched_state = STOPPED
    THEN LET P == PendingOf(pending_jobs, id) IN P[Len(P)].trigger.run_date
    ELSE StoredOf(jobs, id)[1].next_run_time

C15_FiresOnceAtItsInstant ==
    /\ [][\A t \in tasks' \ tasks :
            t.func = "_reminder_job"
            => /\ sched_state = RUNNING
               /\ Len(StoredOf(jobs, t.job_id)) = 1
               /\ StoredOf(jobs, t.job_id)[1].next_run_time = now
               /\ StoredOf(jobs', t.job_id) = <<>>
               /\ Cardinality(tasks' \ tasks) = 1]_vars
    /\ [][PlansReminders => tasks' = tasks]_vars
    /\ [][\A i \in DOMAIN jobs :
            ( /\ jobs[i].job.func = "_reminder_job"
              /\ jobs[i].next_run_time = now
              /\ sched_state = RUNNING /\ sched_state' = RUNNING
              /\ StoredOf(jobs', jobs[i].job.id) = <<>> )
            => \E t \in tasks' : t.job_id = jobs[i].job.id]_vars

\* the 3-day reminder of a meeting has fired: its handler is in flight, its
\* job has left the store, and the 1-day job is still to fire
C15_Witness ==
    \E m \in DOMAIN meetings, t \in tasks :
        /\ sched_state = RUNNING
        /\ t.func = "_reminder_job"
        /\ t.job_id = <<"meeting", m, "reminder", 3>>
        /\ StoredOf(jobs, t.job_id) = <<>>
        /\ Len(StoredOf(jobs, <<"meeting", m, "reminder", 1>>)) = 1

\* the step is a call of schedule_announcements
PlansAnnouncements == sched_op'.op = "schedule_announcements"

\* no destination is configured
NoDestination == settings.announcements_channel_id = 0

\* without a destination nothing of the digest exists: no job, no handler,
\* no message
NothingOfDigest ==
    /\ PendingOf(pending_jobs, <<"announcements_job">>) = <<>>
    /\ StoredOf(jobs, <<"announcements_job">>) = <<>>
    /\ \A t \in tasks : t.func # "_announcement_job"
    /\ outbox = <<>>

\* C16 as stated: without a destination schedule_announcements leaves the
\* job lists as they are and no digest is ever delivered; with a
\* destination it leaves exactly one digest job listed, however many times
\* it is called.
C16_Original ==
    /\ [][PlansAnnouncements =>
            IF NoDestination
            THEN pending_jobs' = pending_jobs /\ jobs' = jobs
            ELSE TimesListed(sched_state', pending_jobs', jobs',
                             <<"announcements_job">>) = 1]_vars
    /\ [](NoDestination => NothingOfDigest)

\* C16 as amended: without a destination schedule_announcements leaves the
\* job lists as they are and no digest is ever delivered; with a
\* destination the id of the digest job is scheduled after every call, a
\* running scheduler stores exactly one job under it however many times
\* the method is called, and a scheduler not yet started appends the
\* (same) job to its pending list at every call, of which start() keeps one.
C16_OneDigestJobWhenRunning ==
    /\ [][PlansAnnouncements =>
            IF NoDestination
            THEN pending_jobs' = pending_jobs /\ jobs' = jobs
            ELSE /\ <<"announcements_job">> \in JobIds(sched_state', pending_jobs', jobs')
                 /\ sched_state = RUNNING
                    => Len(StoredOf(jobs', <<"announcements_job">>)) = 1
                 /\ \A i, j \in DOMAIN pending_jobs' :
                       pending_jobs'[i].id = <<"announcements_job">>
                       /\ pending_jobs'[j].id = <<"announcements_job">>
                       => pending_jobs'[i] = pending_jobs'[j]]_vars
    /\ [](NoDestination => NothingOfDigest)
    /\ [](sched_state = RUNNING => Len(StoredOf(jobs, <<"announcements_job">>)) <= 1)

\* schedule_announcements was called twice for a configured destination on
\* a running scheduler
C16_Witness ==
    /\ ~NoDestination
    /\ sched_op.op = "schedule_announcements"
    /\ sched_op.nth = 2
    /\ sched_state = RUNNING
    /\ Len(StoredOf(jobs, <<"announcements_job">>)) = 1

\* the meetings that are not canceled and start at or after the instant t
ActiveFrom(t) ==
    {m \in DOMAIN meetings : ~meetings[m].canceled /\ start_at_utc[m] >= t}

\* the text lists, after its heading, the first 10 (all, if there are
\* fewer) of the meetings of U in ascending order of start
ListsFirstTen(text, U) ==
    LET n == Len(text) - 1
        listed == {text[k][1] : k \in 2..Len(text)}
    IN  /\ text[1] = "Upcoming meetings:"
        /\ n = (IF Cardinality(U) < 10 THEN Cardinality(U) ELSE 10)
        /\ listed \subseteq U
        /\ Cardinality(listed) = n
        /\ \A k \in 2..Len(text) : text[k] = <<text[k][1], start_at_utc[text[k][1]]>>
        /\ \A k \in 2..(Len(text) - 1) : text[k][2] <= text[k + 1][2]
        /\ \A m \in U \ listed : \A l \in listed : start_at_utc[l] <= start_at_utc[m]

\* C17: the handler of a fired digest job lists exactly the meetings that
\* are not canceled and start at or after the instant it reads as now, in
\* ascending order of start, cut to the first 10; and a message is
\* delivered only as that one text of a digest handler, to the configured
\* destination, the handler ending with it.
C17_DigestListsUpcoming ==
    /\ [][\A t \in tasks' \ tasks :
            t.func = "_announcement_job" /\ t.pc = "send"
            => /\ t.now_utc = now
               /\ ActiveFrom(now) # {} => ListsFirstTen(t.text, ActiveFrom(now))
               /\ ActiveFrom(now) = {} => t.text[1] # "Upcoming meetings:"]_vars
    /\ [][outbox' # outbox =>
            \E t \in tasks :
               /\ t.func = "_announcement_job" /\ t.pc = "send"
               /\ tasks' = tasks \ {t}
               /\ outbox' = Append(outbox, [chat_id |-> settings.announcements_channel_id,
                                            text |-> t.text])]_vars

\* a digest of 10 lines was delivered from a table with more than 10
\* meetings to list
C17_Witness ==
    \E k \in DOMAIN outbox :
        /\ Len(outbox[k].text) = 11
        /\ Cardinality(ActiveFrom(now)) > 10
        /\ outbox[k].chat_id = settings.announcements_channel_id

\* C18: when the handler of a fired digest job finds no meeting that is
\* not canceled and starts at or after now, its text is the fixed
\* no-upcoming-meetings text, and the handler delivers it as one message to
\* the configured destination and ends: the text is not delivered a second
\* time for that firing.
C18_NoUpcomingText ==
    /\ [][\A t \in tasks' \ tasks :
            (t.func = "_announcement_job" /\ t.pc = "send" /\ ActiveFrom(now) = {})
            => t.text = <<"No upcoming meetings.">>]_vars
    /\ [][\A t \in tasks \ tasks' :
            ( /\ t.func = "_announcement_job" /\ t.pc = "send"
              /\ t.text = <<"No upcoming meetings.">>
              /\ outbox' # outbox )
            => outbox' = Append(outbox, [chat_id |-> settings.announcements_channel_id,
                                         text |-> <<"No upcoming meetings.">>])]_vars
    /\ [][outbox' # outbox => \E t \in tasks : t.pc = "send" /\ tasks' = tasks \ {t}]_vars

\* the fixed text was delivered while the only meeting of the table is
\* canceled or past
C18_Witness ==
    /\ meetings # <<>>
    /\ ActiveFrom(now) = {}
    /\ Len(outbox) = 1
    /\ outbox[1] = [chat_id |-> settings.announcements_channel_id,
                    text |-> <<"No upcoming meetings.">>]

\* C19: when the handler of a fired job fails (the delivery inside the
\* digest job raises), only that handler ends: the scheduler stays
\* running, the job lists are as they were, the digest job is still stored
\* with a next run time, the other handlers go on, nothing is delivered
\* and no meeting or registration changes.
C19_FailureIsolated ==
    [][(sched_op'.op = "job_error" /\ tasks' # tasks) =>
        /\ sched_state = RUNNING /\ sched_state' = RUNNING
        /\ jobs' = jobs /\ pending_jobs' = pending_jobs
        /\ Len(StoredOf(jobs', <<"announcements_job">>)) = 1
        /\ StoredOf(jobs', <<"announcements_job">>)[1].next_run_time > sched_op'.now
        /\ \E t \in tasks : t.func = "_announcement_job" /\ tasks' = tasks \ {t}
        /\ outbox' = outbox
        /\ meetings' = meetings /\ regs' = regs /\ start_at_utc' = start_at_utc]_vars

\* the delivery of a digest has failed while a reminder job of a meeting
\* is stored
C19_Witness ==
    /\ sched_op.op = "job_error"
    /\ sched_state = RUNNING
    /\ Len(StoredOf(jobs, <<"announcements_job">>)) = 1
    /\ \E k \in DOMAIN jobs : jobs[k].job.func = "_reminder_job"
    /\ outbox = <<>>

\* C20: shutdown() returns without waiting; after it no job that was not
\* yet due fires (a handler starts only on a running scheduler and the
\* stopped scheduler stores no job), while every handler that was executing
\* when shutdown() was called goes on to its completion.
C20_ShutdownLeavesHandlers ==
    /\ [][(sched_state = RUNNING /\ sched_state' = STOPPED) =>
            /\ jobs' = <<>>
            /\ tasks' = tasks]_vars
    /\ [][(tasks' \ tasks # {}) => sched_state = RUNNING]_vars

(***************************************************************************)
(* Properties of the registrations, continued                              *)
(***************************************************************************)

\* the confirmed registrations of meeting m in the table R that carry the
\* host flag
HostCountIn(R, m) ==
    Cardinality({i \in DOMAIN R : /\ R[i].meeting_id = m
                                  /\ R[i].status = CONFIRMED
                                  /\ R[i].is_host})

\* C21: the registration create_meeting inserts for the creator carries
\* the host flag: the commit that makes a meeting visible leaves it with
\* one confirmed host-flagged registration, the creator's.
C21_CreatorIsHost ==
    [][\A m \in MeetingIds :
          (m \notin DOMAIN meetings /\ m \in DOMAIN meetings')
          => /\ HostCountIn(regs', m) = 1
             /\ \E i \in DOMAIN regs' : /\ regs'[i].meeting_id = m
                                        /\ regs'[i].user_id = meetings'[m].created_by
                                        /\ regs'[i].is_host]_vars

\* C22: unregister on a meeting id that is missing or whose meeting is
\* canceled returns not_found and changes no registration.
C22_UnregisterNotFound ==
    \A p \in Procs :
        (Done(p, "unregister") /\ ~PreActive(p))
        => (result[p] = Return(FALSE, MsgNotFound) /\ regs = pre[p].regs)

\* the (bool, message) pairs register and unregister are written to return
RegisterOutcomes ==
    {Return(FALSE, MsgNotFound), Return(FALSE, MsgAlready),
     Return(TRUE, MsgFull), Return(TRUE, MsgRegistered)}

UnregisterOutcomes ==
    {Return(FALSE, MsgNotRegistered), Return(TRUE, MsgUnregistered)}

\* C23: in every state reached by create_meeting, register and unregister
\* calls, a register or unregister call that has ended has returned one of
\* its outcomes: none has raised (as a lookup of at most one registration
\* that finds several does), and a call that wrote nothing left the
\* registrations as they were.
C23_StructuredOutcomes ==
    \A p \in Procs :
        /\ Done(p, "register")
           => /\ result[p] \in RegisterOutcomes
              /\ ~result[p].ok => regs = pre[p].regs
        /\ Done(p, "unregister")
           => /\ result[p] \in UnregisterOutcomes
              /\ ~result[p].ok => regs = pre[p].regs

(***************************************************************************)
(* Properties of the creation conversation                                 *)
(***************************************************************************)

\* the step hands a request to db.create_meeting
Submits == conv_op'.request # None /\ conv_op'.handler = "_create_meeting_minute_callback"

\* C24: the creation conversation calls create_meeting only with a fully
\* populated request: topic, description, capacity and start are all
\* present, whatever the user restarted, canceled or ran in another chat
\* before.
C24_FullyPopulatedRequest ==
    [][Submits =>
         LET request == conv_op'.request[1] IN
         /\ request.topic # None
         /\ request.description # None
         /\ request.max_participants # None
         /\ request.start_at_utc # None]_vars

(***************************************************************************)
(* Properties of the scheduler, continued                                  *)
(***************************************************************************)

\* the job is a reminder of meeting m firing at the start of m as it stands
\* minus the offset its id names
FollowsStart(job, m) ==
    (job.func = "_reminder_job" /\ job.arg = m)
    => job.trigger.run_date = start_at_utc[m] - job.id[4]

\* the jobs a scheduler fires: its store, with the pending jobs put in it as
\* start() will when it is not started yet
JobTable == IF sched_state = STOPPED THEN RealAddAll(jobs, pending_jobs, now) ELSE jobs

\* C25: after a call of schedule_meeting_reminders for a meeting whose
\* start was edited, later or earlier, every job the scheduler is to fire
\* for the meeting fires at the meeting's current start minus its offset:
\* no job planned for an earlier start is left in the table.
C25_NoStaleReminder ==
    \A m \in DOMAIN meetings :
        (sched_op.op = "schedule_meeting_reminders" /\ sched_op.m = m)
        => \A k \in DOMAIN JobTable : FollowsStart(JobTable[k].job, m)

(***************************************************************************)
(* Properties of the creation conversation, continued                      *)
(***************************************************************************)

\* capacity inputs that are not an integer, or are an integer <= 0
BadCapacityTexts == { <<"0">>, <<"-", "1">>, <<"a">>, <<"1", ".", "5">> }

\* C26: every meeting persisted through the creation conversation has a
\* capacity of at least 1: a capacity input that is not an integer or is
\* <= 0 keeps the conversation in the capacity step and stores nothing, and
\* no request handed to create_meeting carries a capacity below 1.
C26_CapacityAtLeastOne ==
    /\ [](\A m \in DOMAIN meetings : meetings[m].max_participants >= 1)
    /\ [][(conv_op'.handler = "_create_meeting_max_members"
           /\ conv_op'.text \in BadCapacityTexts)
          => /\ conversations[conv_op'.chat] = STATE_MAX
             /\ conversations' = conversations
             /\ user_data' = user_data
             /\ meetings' = meetings
             /\ regs' = regs
             /\ conv_op'.request = None]_vars
    /\ [][Submits =>
            LET cap == conv_op'.request[1].max_participants
            IN  cap # None => cap[1] >= 1]_vars

\* with a meeting persisted, the capacity step has just turned down the
\* input "0" and the conversation is still in that step
C26_Witness ==
    /\ meetings # <<>>
    /\ conv_op.handler = "_create_meeting_max_members"
    /\ conv_op.text = <<"0">>
    /\ conversations[conv_op.chat] = STATE_MAX
    /\ user_data["max_participants"] = None

(***************************************************************************)
(* Properties of the scheduler, continued: cancellation                    *)
(***************************************************************************)

\* the step sets the cancellation instant of meeting m
Cancels(m) == ~meetings[m].canceled /\ meetings'[m].canceled

\* C27: the reminder jobs of a meeting are not withdrawn when the meeting
\* is canceled after they were planned: the step that sets the
\* cancellation instant leaves the pending list and the job store as they
\* were, and a reminder job of a canceled meeting that leaves the store of
\* a running scheduler at its instant has its handler started.
C27_CancelKeepsReminders ==
    /\ [][\A m \in DOMAIN meetings :
            Cancels(m) => /\ jobs' = jobs
                          /\ pending_jobs' = pending_jobs
                          /\ tasks' = tasks]_vars
    /\ [][\A i \in DOMAIN jobs :
            ( /\ jobs[i].job.func = "_reminder_job"
              /\ jobs[i].job.arg \in DOMAIN meetings
              /\ meetings[jobs[i].job.arg].canceled
              /\ jobs[i].next_run_time = now
              /\ sched_state = RUNNING /\ sched_state' = RUNNING
              /\ StoredOf(jobs', jobs[i].job.id) = <<>> )
            => \E t \in tasks' : /\ t.job_id = jobs[i].job.id
                                 /\ t.func = "_reminder_job"
                                 /\ t.arg = jobs[i].job.arg]_vars

\* a reminder of a meeting that was canceled after planning has fired, and
\* another reminder of the meeting is still stored
C27_Witness ==
    \E m \in DOMAIN meetings, t \in tasks :
        /\ meetings[m].canceled
        /\ sched_state = RUNNING
        /\ t.func = "_reminder_job" /\ t.arg = m
        /\ \E k \in DOMAIN jobs : jobs[k].job.func = "_reminder_job" /\ jobs[k].job.arg = m

(***************************************************************************)
(* Properties of the registrations, continued: re-registration             *)
(***************************************************************************)

\* the canceled rows of (meeting, user) in the table R
CanceledRowsIn(R, m, u) ==
    {i \in DOMAIN R : /\ R[i].meeting_id = m
                      /\ R[i].user_id = u
                      /\ R[i].status = CANCELED}

\* task p's register call was made by a user who had unregistered from the
\* active meeting and held no live registration of it
ReRegisters(p) ==
    /\ Done(p, "register")
    /\ PreActive(p)
    /\ PreLive(p) = {}
    /\ CanceledRowsIn(pre[p].regs, args[p].m, args[p].u) # {}

\* C28: with the calls run one at a time, a user who unregistered from a
\* meeting can register for it again: the call succeeds, confirmed if the
\* confirmed count is below the capacity and waitlisted otherwise, the new
\* registration is the pair's only live one, and the earlier registration
\* stays canceled.
C28_ReRegistration ==
    \A p \in Procs :
        ReRegisters(p)
        => LET m == args[p].m
               u == args[p].u
               status == IF PreConfirmed(p) < pre[p].meetings[m].max_participants
                         THEN CONFIRMED ELSE WAITLISTED
           IN  /\ result[p] = IF status = CONFIRMED THEN Return(TRUE, MsgRegistered)
                              ELSE Return(TRUE, MsgFull)
               /\ Len(regs) = Len(pre[p].regs) + 1
               /\ LiveRowsIn(regs, m, u) = {Len(regs)}
               /\ regs[Len(regs)].status = status
               /\ \A i \in DOMAIN pre[p].regs : regs[i] = pre[p].regs[i]

\* a user who had unregistered is confirmed again
C28_Witness ==
    \E p \in Procs :
        /\ ReRegisters(p)
        /\ result[p] = Return(TRUE, MsgRegistered)
        /\ regs[Len(regs)].status = CONFIRMED
        /\ CanceledRowsIn(regs, args[p].m, args[p].u) # {}

(***************************************************************************)
(* Properties of the registrations, continued: different meetings          *)
(***************************************************************************)

\* the rows of meeting m in the table R, in id order
OnlyOf(R, m) ==
    LET OfMeeting(r) == r.meeting_id = m IN SelectSeq(R, OfMeeting)

\* what register(m, u) returns, told from the meeting's row (active or
\* not, cap) and the rows Rm of the meeting alone
RegisterOutcomeFrom(active, cap, Rm, u) ==
    LET own == {i \in DOMAIN Rm : Rm[i].user_id = u /\ Rm[i].status = CONFIRMED}
        count == Cardinality({i \in DOMAIN Rm : Rm[i].status = CONFIRMED})
    IN  IF ~active THEN Return(FALSE, MsgNotFound)
        ELSE IF Cardinality(own) > 1 THEN Raise(ExcMultipleResultsFound)
        ELSE IF own # {} THEN Return(FALSE, MsgAlready)
        ELSE IF count < cap THEN Return(TRUE, MsgRegistered)
        ELSE Return(TRUE, MsgFull)

\* what unregister(m, u) returns, told from the rows Rm of the meeting alone
UnregisterOutcomeFrom(Rm, u) ==
    LET live == {i \in DOMAIN Rm : /\ Rm[i].user_id = u
                                   /\ Rm[i].status \in {CONFIRMED, WAITLISTED}}
    IN  IF Cardinality(live) > 1 THEN Raise(ExcMultipleResultsFound)
        ELSE IF live = {} THEN Return(FALSE, MsgNotRegistered)
        ELSE Return(TRUE, MsgUnregistered)

\* task p has taken a step of its call
Steps(p) == pc'[p] # pc[p]

\* C29: register and unregister on meeting m read and write only the
\* registrations of m.  With the calls for different meetings made
\* concurrently, each meeting's by its own task: the outcome of a call is
\* the one the meeting's own row and registrations at the time of the call
\* give; a step of a call on m leaves the meetings and the registrations of
\* every other meeting as they were and adds rows to m only; and the
\* commit of a register call is never kept waiting by the call on the
\* other meeting.
C29_MeetingsApart ==
    /\ [](\A p \in Procs :
            /\ Done(p, "register")
               => result[p] = RegisterOutcomeFrom(
                                  PreActive(p),
                                  IF args[p].m \in DOMAIN pre[p].meetings
                                  THEN pre[p].meetings[args[p].m].max_participants
                                  ELSE 0,
                                  OnlyOf(pre[p].regs, args[p].m), args[p].u)
            /\ Done(p, "unregister")
               => result[p] = UnregisterOutcomeFrom(OnlyOf(pre[p].regs, args[p].m),
                                                    args[p].u))
    /\ [][\A p \in Procs :
            Steps(p)
            => /\ \A m \in DOMAIN meetings :
                     m # args'[p].m => OnlyOf(regs', m) = OnlyOf(regs, m)
               /\ Len(regs') > Len(regs) => regs'[Len(regs')].meeting_id = args'[p].m
               /\ meetings' = meetings]_vars
    /\ [](\A p \in Procs :
            (pc[p] = "reg_commit" /\ Len(OnlyOf(regs, args[p].m)) < MaxRegs)
            => ENABLED register_commit(p))

\* two register calls for different meetings ran at the same time and both
\* inserted their registration, one confirmed and one waitlisted
C29_Witness ==
    \E p, q \in Procs :
        /\ p # q
        /\ Done(p, "register") /\ Done(q, "register")
        /\ args[p].m # args[q].m
        /\ result[p] = Return(TRUE, MsgRegistered)
        /\ result[q] = Return(TRUE, MsgFull)
        /\ Len(pre[p].regs) = Len(regs) - 2
        /\ Len(pre[q].regs) = Len(regs) - 2

(***************************************************************************)
(* Properties of the listing                                               *)
(***************************************************************************)

\* the instants a listing is asked from
Instants == 0..(StartSpan + 1)

\* the elements of a sequence
Range(s) == {s[i] : i \in DOMAIN s}

\* C30: list_upcoming_meetings(instant) returns exactly the meetings with
\* no cancellation instant and a start at or after the instant (a meeting
\* starting at the instant itself is in it), each once, by ascending start.
C30_ListsUpcoming ==
    \A t \in Instants :
        LET L == list_upcoming_meetings(t) IN
        /\ Range(L) = {m \in DOMAIN meetings : ~meetings[m].canceled /\ start_at_utc[m] >= t}
        /\ Len(L) = Cardinality(Range(L))
        /\ \A i, j \in DOMAIN L : i < j => start_at_utc[L[i]] <= start_at_utc[L[j]]

\* the digest handler has listed the meetings from an instant at which a
\* meeting starts, with a canceled meeting and a past meeting in the table:
\* the meeting starting at the instant is in its text
C30_Witness ==
    \E t \in tasks, m, c, o \in DOMAIN meetings :
        /\ t.func = "_announcement_job" /\ t.pc = "send"
        /\ ~meetings[m].canceled /\ start_at_utc[m] = t.now_utc
        /\ \E k \in 2..Len(t.text) : t.text[k] = <<m, start_at_utc[m]>>
        /\ meetings[c].canceled
        /\ start_at_utc[o] < t.now_utc
        /\ Len(list_upcoming_meetings(t.now_utc)) >= 2

(***************************************************************************)
(* Properties of the users and of the listing of a user's meetings         *)
(***************************************************************************)

\* the meetings the user holds a live registration for that start at the
\* instant t or later
LiveMeetingsFrom(u, t) ==
    {m \in DOMAIN meetings : LiveRowsIn(regs, m, u) # {} /\ start_at_utc[m] >= t}

\* C31: the listing of a user's meetings returns the meetings for which the
\* user holds a live (confirmed or waitlisted) registration and whose start
\* is at or after the given instant, and no meeting for which the user's
\* only registrations are canceled: a call of the listing returns exactly
\* these meetings, and /my_meetings gets the listing and does not fail.
C31_ListsLiveMeetings ==
    /\ my_meetings.op = "list_user_meetings" =>
          Range(my_meetings.rows) =
             LiveMeetingsFrom(my_meetings.user_id, my_meetings.now_utc)
    /\ \A p \in Procs :
          (args[p].op = "cmd_my" /\ pc[p] = "done") => result[p].kind = "return"

\* a call of get_or_create_user by task p has ended
UserCallDone(p) == args[p].op = "get_or_create_user" /\ pc[p] = "done"

\* C32: get_or_create_user called any number of times for the same id,
\* sequentially or concurrently, never fails and leaves the user with a
\* row (one row: the table holds one row per id); a user once created is
\* never deleted, and a later call changes nothing of the stored row but
\* its name and handle.
C32_OneUserRow ==
    /\ [](\A p \in Procs :
             UserCallDone(p) => /\ result[p].kind = "return"
                                /\ args[p].u \in DOMAIN users)
    /\ [][\A u \in DOMAIN users :
             /\ u \in DOMAIN users'
             /\ users'[u].created_at = users[u].created_at]_vars

(***************************************************************************)
(* Properties of the process                                               *)
(***************************************************************************)

\* the process has been restarted by this step
Restarts == sched_op'.op = "restart"

\* the reminder jobs in a job store
ReminderJobsIn(store) == {i \in DOMAIN store : store[i].job.func = "_reminder_job"}

\* C33: a job that becomes due while the scheduler is stopped is lost and
\* not retried: after a restart of the process the job table holds no
\* reminder job of the meetings stored before it and nothing is pending
\* (the startup plans no reminder from the stored starts), and the handler
\* of a reminder is started only for a stored job at the very instant the
\* job is set to fire, never for an instant that has passed.
C33_MissedFiringLost ==
    /\ [][Restarts => /\ ReminderJobsIn(jobs') = {}
                      /\ pending_jobs' = <<>>]_vars
    /\ [][\A t \in tasks' \ tasks :
            t.func = "_reminder_job"
            => /\ ~Restarts
               /\ \E i \in ReminderJobsIn(jobs) : /\ jobs[i].job.id = t.job_id
                                                  /\ jobs[i].next_run_time = now]_vars

\* the process is up again after a stop during which the 3-day reminder of
\* a stored meeting became due: the reminder did not fire before the stop
\* (its instant came after it), and the 1-day reminder is still ahead
C33_Witness ==
    /\ sched_op.op = "restart"
    /\ \E m \in DOMAIN meetings :
          /\ ~meetings[m].canceled
          /\ sched_op.start < start_at_utc[m] - 3
          /\ start_at_utc[m] - 3 <= sched_op.now
          /\ start_at_utc[m] - 1 > sched_op.now
    /\ ReminderJobsIn(jobs) = {}

(***************************************************************************)
(* Properties of the registration rows                                     *)
(***************************************************************************)

\* the step is one of task p running the operation op
StepOf(p, op) == pc'[p] # pc[p] /\ (args[p].op = op \/ args'[p].op = op)

\* the step adds one row to the registrations and changes no other
InsertsRow == Len(regs') = Len(regs) + 1 /\ SubSeq(regs', 1, Len(regs)) = regs

\* the step turns one live row to canceled and changes nothing else
CancelsRow ==
    \E i \in DOMAIN regs :
        /\ regs[i].status \in {CONFIRMED, WAITLISTED}
        /\ regs' = [regs EXCEPT ![i].status = CANCELED]

\* C34: registration rows follow a one-way lifecycle: register only inserts
\* a new row and never changes an existing one, unregister only changes one
\* live row to canceled, no row is ever deleted, a canceled row never
\* becomes live again, and a waitlisted row never becomes confirmed.
C34_OneWayLifecycle ==
    /\ [][\A p \in Procs : StepOf(p, "register") => (regs' = regs \/ InsertsRow)]_vars
    /\ [][\A p \in Procs : StepOf(p, "unregister") => (regs' = regs \/ CancelsRow)]_vars
    /\ [][/\ Len(regs') >= Len(regs)
          /\ \A i \in DOMAIN regs :
                /\ regs'[i].meeting_id = regs[i].meeting_id
                /\ regs'[i].user_id = regs[i].user_id
                /\ regs[i].status = CANCELED => regs'[i].status = CANCELED
                /\ regs[i].status = WAITLISTED => regs'[i].status # CONFIRMED]_vars

\* a user whose waitlisted row was canceled by unregister has registered
\* again: the canceled row stands as it was and a new row has been inserted
C34_Witness ==
    \E p \in Procs, i \in DOMAIN regs :
        /\ Done(p, "register")
        /\ result[p].kind = "return" /\ result[p].ok
        /\ i \in DOMAIN pre[p].regs
        /\ pre[p].regs[i].status = CANCELED
        /\ regs[i] = pre[p].regs[i]
        /\ regs[i].meeting_id = args[p].m /\ regs[i].user_id = args[p].u
        /\ regs[Len(regs)].user_id = args[p].u
        /\ regs[Len(regs)].status = WAITLISTED
        /\ Len(regs) > Len(pre[p].regs)

\* the registration inserted with the meeting m: its first row in the table R
AutoCreatedRow(R, m) == Min({i \in DOMAIN R : R[i].meeting_id = m})

\* the confirmed rows the user u holds for the meeting m in the table R
ConfirmedRowsIn(R, m, u) ==
    {i \in DOMAIN R : R[i].meeting_id = m /\ R[i].user_id = u /\ R[i].status = CONFIRMED}

\* task p's call is for a meeting that was active when the call was made and
\* still is
OnActive(p) == PreActive(p) /\ IsActiveIn(meetings, args[p].m)

\* C35: unregister treats the meeting's creator like any other user.  The
\* creator unregistering while the registration created with the meeting is
\* confirmed gets unregistered: that row is canceled, confirmedCount is
\* lower by one, and the meeting stays active with no confirmed registration
\* of its creator.  The slot is free for the next register call: a user
\* registering when the creator's row is canceled and the count is one below
\* the capacity is confirmed.
C35_CreatorUnregisters ==
    \A p \in Procs :
        LET m == args[p].m
            creator == meetings[m].created_by
            h == AutoCreatedRow(pre[p].regs, m)
        IN  /\ ( /\ Done(p, "unregister") /\ OnActive(p)
                 /\ args[p].u = creator
                 /\ pre[p].regs[h].status = CONFIRMED )
               => /\ result[p] = Return(TRUE, MsgUnregistered)
                  /\ regs[h] = [pre[p].regs[h] EXCEPT !.status = CANCELED]
                  /\ confirmedCount(m) = PreConfirmed(p) - 1
                  /\ ConfirmedRowsIn(regs, m, creator) = {}
            /\ ( /\ Done(p, "register") /\ OnActive(p)
                 /\ pre[p].regs[h].status = CANCELED
                 /\ ConfirmedRowsIn(pre[p].regs, m, args[p].u) = {}
                 /\ PreConfirmed(p) = Cap(m) - 1 )
               => /\ result[p] = Return(TRUE, MsgRegistered)
                  /\ regs = Append(pre[p].regs, NewRegistration(m, args[p].u, CONFIRMED))
                  /\ confirmedCount(m) = Cap(m)

\* the creator has unregistered and another user has taken the slot that
\* became free: the meeting is active and full again, and its creator holds
\* no confirmed registration
C35_Witness ==
    \E p \in Procs :
        LET m == args[p].m IN
        /\ Done(p, "register") /\ OnActive(p)
        /\ args[p].u # meetings[m].created_by
        /\ pre[p].regs[AutoCreatedRow(pre[p].regs, m)].status = CANCELED
        /\ PreConfirmed(p) = Cap(m) - 1
        /\ result[p] = Return(TRUE, MsgRegistered)
        /\ confirmedCount(m) = Cap(m)
        /\ ConfirmedRowsIn(regs, m, meetings[m].created_by) = {}

(***************************************************************************)
(* Properties of the scheduler's lifecycle                                 *)
(***************************************************************************)

\* the step is a call of start() / of shutdown() that returned
StartReturns == sched_op'.op = "start"
ShutdownReturns == sched_op'.op = "shutdown"

\* the scheduler's jobs and handlers are left as they are
SchedulerUntouched == UNCHANGED <<sched_state, pending_jobs, jobs, tasks>>

\* C36: the scheduler lifecycle is idempotent.  No call of start() or of
\* shutdown(), in any order, raises; start() leaves the scheduler running
\* and changes nothing of one that runs, shutdown() leaves it stopped and
\* changes nothing of one that is stopped; and the running flag changes
\* with these calls only, so that it is that of the last call that took
\* effect.
C36_LifecycleIdempotent ==
    /\ [](sched_op.op # "lifecycle_error")
    /\ [][StartReturns
            => /\ sched_state' = RUNNING
               /\ sched_state = RUNNING => SchedulerUntouched]_vars
    /\ [][ShutdownReturns
            => /\ sched_state' = STOPPED
               /\ sched_state = STOPPED => SchedulerUntouched]_vars
    /\ [][sched_state' # sched_state => (StartReturns \/ ShutdownReturns)]_vars

\* start() has been called twice in a row (as from the post_init hook and
\* from main_async) on a scheduler that stores a job: the second call found
\* it running
C36_Witness ==
    /\ sched_op.op = "start"
    /\ sched_op.nth = 2
    /\ sched_state = RUNNING
    /\ jobs # <<>>

====
